---- MODULE Spec2Model ----
(***************************************************************************)
(* Model of the resilience decorators of src/src/patterns/QueryDecorators.js *)
(* (CircuitBreakerDecorator, RetryDecorator).  Each async method is cut at   *)
(* its awaits: the code between two awaits runs atomically on the single     *)
(* JavaScript thread and is one action; several calls may be suspended at    *)
(* an await of the same decorator instance at once.                          *)
(***************************************************************************)
EXTENDS Integers, Sequences, FiniteSets, TLC

\* ---------------------------------------------------------------- bounds
NumCalls == 3            \* concurrent callers of one circuit breaker
MaxArrivals == 4         \* calls made to the circuit breaker in one run
MaxThreshold == 2        \* constructor argument threshold ranges over 1..MaxThreshold
MaxResetTimeout == 2     \* constructor argument resetTimeout ranges over 1..MaxResetTimeout
MaxTime == 3             \* Date.now() ranges over 0..MaxTime
NumFetches == 2          \* concurrent fetches through one retry decorator
MaxMaxRetries == 2       \* constructor argument maxRetries ranges over 0..MaxMaxRetries
MaxInitialDelay == 1     \* constructor argument initialDelay ranges over 1..MaxInitialDelay
MaxTimeoutMs == 2        \* constructor argument timeoutMs ranges over 1..MaxTimeoutMs
NumStackFetches == 1     \* concurrent fetches through the whole decorator chain
MaxDepth == 3            \* decorators stacked on one strategy
NumStratFetches == 2     \* concurrent fetches into one strategy
NumIds == 2              \* customer ids
MaxRows == 1             \* rows the dashboard query returns for a customer: 0..MaxRows
MaxHot == 2              \* constructor argument hotDataThreshold ranges over 1..MaxHot
NumObservers == 2        \* observer objects
MaxSubscribed == 2       \* length of the monitor's observer list
MaxFlushes == 1          \* calls of flushCache
NumRecoveryCalls == 2    \* concurrent calls through the breaker while the dependency recovers
MaxLayers == 2           \* decorators stacked on the strategy in the layered fetch
MaxScriptLen == 2        \* length of the strategy's scripted outcomes; the last one repeats
MaxLayerFetches == 2     \* fetches made through one stack of decorators
MaxEvents == 1           \* recordQuery calls in one run

CallIds == 1..NumCalls
Fetches == 1..NumFetches
StackFetches == 1..NumStackFetches
StratFetches == 1..NumStratFetches
CustomerIds == 1..NumIds
ObserverIds == 1..NumObservers

\* this.nextAttempt = null; in `Date.now() < null` null converts to 0, so the
\* comparison is false for every clock value, as it is for -1.
Null == -1

VARIABLES
  now,         \* Date.now()
  cb,          \* the CircuitBreakerDecorator object: threshold, resetTimeout, failureCount, state, nextAttempt
  callPc,      \* per caller of the breaker: "idle" | "inner" (suspended at the await of the inner call)
  callSeen,    \* per caller: this.state as read on entry of the current or last call
  callOutcome, \* per caller: how the last call ended: "none" | "ok" | "err" | "open"
  callInner,   \* per caller: inner invocations made by the current or last call
  arrivals,    \* calls made so far
  run,         \* inner failures completed since the last inner success
  healed,      \* TRUE once the inner layer has recovered: from then on its calls succeed
  overlapped,  \* TRUE once a call was passed to the inner layer while another one was suspended there
  retry,       \* the RetryDecorator object: maxRetries, initialDelay
  rPc,         \* per fetch: "idle" | "calling" | "sleeping" | "done"
  attempt,     \* per fetch: the loop variable attempt
  lastError,   \* per fetch: the local lastError
  wakeAt,      \* per fetch: when the setTimeout of _sleep fires
  rOutcome,    \* per fetch: what the caller received
  rCalls,      \* per fetch: inner calls made
  rLog,        \* per fetch: the errors thrown by the inner calls, in order
  rSleeps,     \* per fetch: the delays passed to _sleep, in order
  rOk,         \* per fetch: the value an inner call returned, NoId if none did
  tmo,         \* the TimeoutDecorator object: timeoutMs
  tTimer,      \* per fetch: the timer of _createTimeout: "unset" | "armed" | "fired"
  tFireAt,     \* per fetch: when that timer is due
  tOutcome,    \* per fetch: what Promise.race settled with
  metrics,     \* the MetricsDecorator object's this.metrics
  mPc,         \* per fetch: "idle" | "inner" | "done" in MetricsDecorator.getCustomerDashboard
  mStart,      \* per fetch: the local startTime
  mOutcome,    \* per fetch: what the caller of the MetricsDecorator received
  chain,       \* the decorator objects stacked on a strategy, outermost first: kind and identity
  gm,          \* the outcome of the last executor.getMetrics() on the outermost object
  store,       \* PostgreSQL: per customer id the number of rows the dashboard query returns
  cache,       \* Redis: per customer id the value under `dashboard:${id}`: <<>> or <<text>>
  redisStrat,  \* the RedisCacheStrategy object: cacheHits, cacheMisses
  hybrid,      \* the HybridStrategy object: hotDataThreshold, accessCount
  held,        \* the fetches holding a pool client that is not yet released
  sPc,         \* per fetch: "idle" | "get" | "connect" | "query" | "setex" | "done"
  sId,         \* per fetch: the argument customerId
  sPath,       \* per fetch: "none" | "cache" | "direct"
  sData,       \* per fetch: the local data: <<>> or <<record>>
  sOutcome,    \* per fetch: what the caller received
  sGets,       \* per fetch: redis.get commands issued
  sReads,      \* per fetch: store queries issued
  sReleases,   \* per fetch: calls of client.release()
  sWrites,     \* per fetch: redis.setex commands issued
  sHit,        \* per fetch: answered from the cache
  sFaults,     \* per fetch: the gateway operations that failed
  sNth,        \* per fetch: it is the n-th fetch started for its id
  fresh,       \* per id: <<record>> a finished miss stored and no expiry followed, else <<>>
  sSeen,       \* per fetch: fresh[id] when the fetch started
  sExpired,    \* per fetch: the entry of its id expired while the fetch was in flight
  sOverlap,    \* TRUE once a fetch started while another one was in flight
  sStrat,      \* the strategy object each fetch was made on
  sCounted,    \* per fetch: its cache read was answered since the counters were last reset
  flushPc,     \* flushCache: "idle" | "sent"
  flushes,     \* calls of flushCache made
  observers,   \* the PerformanceMonitor's this.observers
  monQueries,  \* this.metrics.queries
  monAlerts,   \* this.metrics.alerts
  monCall,     \* the last call of a monitor method: op, arg, threw, and the subscribed
               \* observers whose update was set to raise during it
  delivered,   \* the update() invocations made by the last call of a monitor method, in order
  gone,        \* observers unsubscribed and not subscribed again since
  layers,      \* a stack of decorator objects, outermost first: kind and the object's fields
  lOut,        \* what the caller of the last fetch through the stack received
  lCalls,      \* strategy calls made by the last fetch
  lTrace,      \* the calls, settlements and log entries of the last fetch, in order
  lFires,      \* the levels whose timeout timer fired during the last fetch
  lFetches,    \* fetches made through the stack
  mgr,         \* the DatabaseConnectionManager: _pgPool, _redisClient, _isInitialized
  pgState,     \* per PostgreSQL pool the manager can create: "unused" | "open" | "ending" | "closed"
  rdState,     \* per Redis client the manager can create: "unused" | "open" | "ending" | "closed"
  clPc,        \* per closeAll call: "idle" | "waiting" | "done"
  clWaitPg,    \* per closeAll call: the pool whose end() it awaits, or Null
  clWaitRd,    \* per closeAll call: the client whose quit() it awaits, or Null
  initCalls,   \* calls of initialize made
  dbLast,      \* the last call of initialize: whether the manager was initialized, whether it created
  qb,          \* a query builder object: the fields set by QueryBuilder.reset
  qbKind,      \* its class: "dashboard" (CustomerDashboardQueryBuilder) | "order" (OrderQueryBuilder)
  qbLast,      \* the last buildFor* call: op, args, and the text and values it returned
  qbPrev,      \* the buildFor* call before it
  qbBuilds     \* buildFor* calls made

cbVars == <<cb, callPc, callSeen, callOutcome, callInner, arrivals, run, overlapped, healed>>
retryVars == <<retry, rPc, attempt, lastError, wakeAt, rOutcome, rCalls, rLog, rSleeps, rOk>>
stackVars == <<tmo, tTimer, tFireAt, tOutcome, metrics, mPc, mStart, mOutcome>>
chainVars == <<chain, gm>>
stratVars == <<store, cache, redisStrat, hybrid, held, sPc, sId, sPath, sData, sOutcome,
               sGets, sReads, sReleases, sWrites, sHit, sFaults, sNth, fresh, sSeen, sExpired, sOverlap, sStrat,
               sCounted, flushPc, flushes>>
monVars == <<observers, monQueries, monAlerts, monCall, delivered, gone>>
layerVars == <<layers, lOut, lCalls, lTrace, lFires, lFetches>>
dbVars == <<mgr, pgState, rdState, clPc, clWaitPg, clWaitRd, initCalls, dbLast>>
qbVars == <<qb, qbKind, qbLast, qbPrev, qbBuilds>>
vars == <<now, cbVars, retryVars, stackVars, chainVars, stratVars, monVars, layerVars, dbVars, qbVars>>

\* what the actions of one object leave alone
nonCBVars == <<retryVars, stackVars, chainVars, stratVars, monVars, layerVars, dbVars, qbVars>>
nonRetryVars == <<cbVars, stackVars, chainVars, stratVars, monVars, layerVars, dbVars, qbVars>>
nonStackVars == <<cbVars, chainVars, stratVars, monVars, layerVars, dbVars, qbVars>>
nonChainVars == <<cbVars, retryVars, stackVars, stratVars, monVars, layerVars, dbVars, qbVars>>
nonStratVars == <<cbVars, retryVars, stackVars, chainVars, monVars, layerVars, dbVars, qbVars>>
nonMonVars == <<cbVars, retryVars, stackVars, chainVars, stratVars, layerVars, dbVars, qbVars>>
nonLayerVars == <<cbVars, retryVars, stackVars, chainVars, stratVars, monVars, dbVars, qbVars>>
nonDBVars == <<cbVars, retryVars, stackVars, chainVars, stratVars, monVars, layerVars, qbVars>>
nonQBVars == <<cbVars, retryVars, stackVars, chainVars, stratVars, monVars, layerVars, dbVars>>

\* ------------------------------------------------------------ the clock
Tick ==
  /\ now < MaxTime
  /\ now' = now + 1
  /\ UNCHANGED <<cbVars, retryVars, stackVars, chainVars, stratVars, monVars, layerVars, dbVars, qbVars>>

\* ===================================================== CircuitBreakerDecorator
CBConstructor(th, rt) ==
  [threshold |-> th, resetTimeout |-> rt, failureCount |-> 0, state |-> "CLOSED", nextAttempt |-> Null]

\* if (this.state === 'OPEN') { if (Date.now() < this.nextAttempt) throw ... }
ShortCircuitsInverted(b, t) == b.state = "OPEN" /\ t >= b.nextAttempt
ShortCircuits(b, t) == b.state = "OPEN" /\ t < b.nextAttempt

\* if (this.state === 'OPEN') { ...; this.state = 'HALF_OPEN'; }
Admit(b) == IF b.state = "OPEN" THEN [b EXCEPT !.state = "HALF_OPEN"] ELSE b

onSuccessKeepsCount(b) ==
  IF b.state = "HALF_OPEN" THEN [b EXCEPT !.state = "CLOSED"] ELSE b
onSuccess(b) ==
  LET b1 == [b EXCEPT !.failureCount = 0]
  IN  IF b1.state = "HALF_OPEN" THEN [b1 EXCEPT !.state = "CLOSED"] ELSE b1

onFailureStrict(b, t) ==
  LET b1 == [b EXCEPT !.failureCount = b.failureCount + 1]
  IN  IF b1.failureCount > b1.threshold
        THEN [b1 EXCEPT !.state = "OPEN", !.nextAttempt = t + b1.resetTimeout]
        ELSE b1
onFailureNoDeadline(b, t) ==
  LET b1 == [b EXCEPT !.failureCount = b.failureCount + 1]
  IN  IF b1.failureCount >= b1.threshold
        THEN [b1 EXCEPT !.state = "OPEN"]
        ELSE b1
onFailure(b, t) ==
  LET b1 == [b EXCEPT !.failureCount = b.failureCount + 1]
  IN  IF b1.failureCount >= b1.threshold
        THEN [b1 EXCEPT !.state = "OPEN", !.nextAttempt = t + b1.resetTimeout]
        ELSE b1

CBInit ==
  /\ cb \in {CBConstructor(th, rt) : th \in 1..MaxThreshold, rt \in 1..MaxResetTimeout}
  /\ callPc = [c \in CallIds |-> "idle"]
  /\ callSeen = [c \in CallIds |-> "CLOSED"]
  /\ callOutcome = [c \in CallIds |-> "none"]
  /\ callInner = [c \in CallIds |-> 0]
  /\ arrivals = 0
  /\ run = 0
  /\ overlapped = FALSE
  /\ healed = FALSE

\* getCustomerDashboard up to its await: rejected while Open before nextAttempt
CBRejectCounts(c) ==
  /\ callPc[c] = "idle"
  /\ arrivals < MaxArrivals
  /\ ShortCircuits(cb, now)
  /\ arrivals' = arrivals + 1
  /\ cb' = onFailure(cb, now)
  /\ callSeen' = [callSeen EXCEPT ![c] = cb.state]
  /\ callOutcome' = [callOutcome EXCEPT ![c] = "open"]
  /\ callInner' = [callInner EXCEPT ![c] = 0]
  /\ UNCHANGED <<callPc, run, overlapped, healed, now, nonCBVars>>
CBReject(c) ==
  /\ callPc[c] = "idle"
  /\ arrivals < MaxArrivals
  /\ ShortCircuits(cb, now)
  /\ arrivals' = arrivals + 1
  /\ callSeen' = [callSeen EXCEPT ![c] = cb.state]
  /\ callOutcome' = [callOutcome EXCEPT ![c] = "open"]
  /\ callInner' = [callInner EXCEPT ![c] = 0]
  /\ UNCHANGED <<cb, callPc, run, overlapped, healed, now, nonCBVars>>

\* getCustomerDashboard up to its await: the inner call is started
CBEnter(c) ==
  /\ callPc[c] = "idle"
  /\ arrivals < MaxArrivals
  /\ ~ShortCircuits(cb, now)
  /\ arrivals' = arrivals + 1
  /\ cb' = Admit(cb)
  /\ callSeen' = [callSeen EXCEPT ![c] = cb.state]
  /\ callOutcome' = [callOutcome EXCEPT ![c] = "none"]
  /\ callInner' = [callInner EXCEPT ![c] = 1]
  /\ callPc' = [callPc EXCEPT ![c] = "inner"]
  /\ overlapped' = (overlapped \/ \E d \in CallIds \ {c} : callPc[d] = "inner")
  /\ UNCHANGED <<run, healed, now, nonCBVars>>

\* the inner call resolved: this._onSuccess(); return result
CBInnerReturns(c) ==
  /\ callPc[c] = "inner"
  /\ cb' = onSuccess(cb)
  /\ callPc' = [callPc EXCEPT ![c] = "idle"]
  /\ callOutcome' = [callOutcome EXCEPT ![c] = "ok"]
  /\ run' = 0
  /\ UNCHANGED <<callSeen, callInner, arrivals, overlapped, healed, now, nonCBVars>>

\* the inner call rejected: this._onFailure(); throw error
CBInnerThrows(c) ==
  /\ callPc[c] = "inner"
  /\ cb' = onFailure(cb, now)
  /\ callPc' = [callPc EXCEPT ![c] = "idle"]
  /\ callOutcome' = [callOutcome EXCEPT ![c] = "err"]
  /\ run' = run + 1
  /\ UNCHANGED <<callSeen, callInner, arrivals, overlapped, healed, now, nonCBVars>>

\* the dependency recovers: every inner call that completes from now on succeeds
Heal ==
  /\ ~healed
  /\ healed' = TRUE
  /\ UNCHANGED <<cb, callPc, callSeen, callOutcome, callInner, arrivals, run, overlapped, now,
                 nonCBVars>>

\* ============================================================ RetryDecorator
RECURSIVE Pow2(_)
Pow2(n) == IF n = 0 THEN 1 ELSE 2 * Pow2(n - 1)

\* error objects: identity is the id; originalError is the id of the wrapped error
NoId == <<>>
Undefined == [name |-> "undefined", id |-> NoId, originalError |-> NoId]
InnerErrorNames == {"ValidationError", "QueryError"}
InnerError(f, n, nm) == [name |-> nm, id |-> <<f, n>>, originalError |-> NoId]

RetryConstructor(m, d) == [maxRetries |-> m, initialDelay |-> d]

\* for (let attempt = 0; attempt <= this.maxRetries; attempt++)
LoopContinuesStrict(a, m) == a < m
LoopContinues(a, m) == a <= m

\* if (error.name === 'ValidationError') throw error
NotRetriedNever(e) == e.name = "Validation"
NotRetried(e) == e.name = "ValidationError"

\* if (attempt === this.maxRetries) break
IsLastAttemptEarly(a, m) == a = m - 1
IsLastAttempt(a, m) == a = m

\* const delay = this.initialDelay * Math.pow(2, attempt)
BackoffShifted(d, a) == d * Pow2(a + 1)
Backoff(d, a) == d * Pow2(a)

\* throw new QueryError(`Failed after ...`, null, lastError)
Exhausted(f, le) == [name |-> "QueryError", id |-> <<f, 0>>, originalError |-> le.id]

Returned(v) == [kind |-> "return", value |-> v, error |-> Undefined]
Thrown(e) == [kind |-> "throw", value |-> NoId, error |-> e]
Pending == [kind |-> "pending", value |-> NoId, error |-> Undefined]

RetryInit ==
  /\ retry \in {RetryConstructor(m, d) : m \in 0..MaxMaxRetries, d \in 1..MaxInitialDelay}
  /\ rPc = [f \in Fetches |-> "idle"]
  /\ attempt = [f \in Fetches |-> 0]
  /\ lastError = [f \in Fetches |-> Undefined]
  /\ wakeAt = [f \in Fetches |-> 0]
  /\ rOutcome = [f \in Fetches |-> Pending]
  /\ rCalls = [f \in Fetches |-> 0]
  /\ rLog = [f \in Fetches |-> <<>>]
  /\ rSleeps = [f \in Fetches |-> <<>>]
  /\ rOk = [f \in Fetches |-> NoId]

\* the loop head with attempt = a: either the next inner call is started, or
\* the loop is left and the QueryError is thrown
RetryLoopHead(f, a, le) ==
  /\ attempt' = [attempt EXCEPT ![f] = a]
  /\ IF LoopContinues(a, retry.maxRetries)
       THEN /\ rPc' = [rPc EXCEPT ![f] = "calling"]
            /\ rCalls' = [rCalls EXCEPT ![f] = @ + 1]
            /\ UNCHANGED rOutcome
       ELSE /\ rPc' = [rPc EXCEPT ![f] = "done"]
            /\ rOutcome' = [rOutcome EXCEPT ![f] = Thrown(Exhausted(f, le))]
            /\ UNCHANGED rCalls

\* getCustomerDashboard is called: let lastError; attempt = 0
RetryStartStep(f) ==
  /\ rPc[f] = "idle"
  /\ RetryLoopHead(f, 0, lastError[f])
  /\ UNCHANGED <<retry, lastError, wakeAt, rLog, rSleeps, rOk>>

\* return await this.executor.getCustomerDashboard(customerId)
RetryInnerReturnsStep(f) ==
  /\ rPc[f] = "calling"
  /\ rPc' = [rPc EXCEPT ![f] = "done"]
  /\ rOk' = [rOk EXCEPT ![f] = <<f, rCalls[f]>>]
  /\ rOutcome' = [rOutcome EXCEPT ![f] = Returned(<<f, rCalls[f]>>)]
  /\ UNCHANGED <<retry, attempt, lastError, wakeAt, rCalls, rLog, rSleeps>>

\* catch (error): rethrow, break and throw the QueryError, or start the backoff
RetryInnerThrowsStep(f, nm) ==
  LET e == InnerError(f, rCalls[f], nm) IN
  /\ rPc[f] = "calling"
  /\ lastError' = [lastError EXCEPT ![f] = e]
  /\ rLog' = [rLog EXCEPT ![f] = Append(@, e)]
  /\ IF NotRetried(e)
       THEN /\ rPc' = [rPc EXCEPT ![f] = "done"]
            /\ rOutcome' = [rOutcome EXCEPT ![f] = Thrown(e)]
            /\ UNCHANGED <<rSleeps, wakeAt>>
       ELSE IF IsLastAttempt(attempt[f], retry.maxRetries)
         THEN /\ rPc' = [rPc EXCEPT ![f] = "done"]
              /\ rOutcome' = [rOutcome EXCEPT ![f] = Thrown(Exhausted(f, e))]
              /\ UNCHANGED <<rSleeps, wakeAt>>
         ELSE /\ rPc' = [rPc EXCEPT ![f] = "sleeping"]
              /\ rSleeps' = [rSleeps EXCEPT ![f] = Append(@, Backoff(retry.initialDelay, attempt[f]))]
              /\ wakeAt' = [wakeAt EXCEPT ![f] = now + Backoff(retry.initialDelay, attempt[f])]
              /\ UNCHANGED rOutcome
  /\ UNCHANGED <<retry, attempt, rCalls, rOk>>

\* the timer of _sleep fired: attempt++ and back to the loop head
RetryWakeStep(f) ==
  /\ rPc[f] = "sleeping"
  /\ now >= wakeAt[f]
  /\ RetryLoopHead(f, attempt[f] + 1, lastError[f])
  /\ UNCHANGED <<retry, lastError, wakeAt, rLog, rSleeps, rOk>>

\* the RetryDecorator called directly
RetryStart(f) == RetryStartStep(f) /\ UNCHANGED <<now, nonRetryVars>>
RetryInnerReturns(f) == RetryInnerReturnsStep(f) /\ UNCHANGED <<now, nonRetryVars>>
RetryInnerThrows(f, nm) == RetryInnerThrowsStep(f, nm) /\ UNCHANGED <<now, nonRetryVars>>
RetryWake(f) == RetryWakeStep(f) /\ UNCHANGED <<now, nonRetryVars>>

\* ================================= MetricsDecorator(TimeoutDecorator(RetryDecorator))
\* The chain built by BenchmarkRunner._createExecutors.  A promise settled by an
\* inner layer is observed by the outer layers in microtasks, which run before
\* any timer or I/O callback: the outer layers' continuations are part of the
\* action in which the inner layer settles.
TimeoutConstructor(ms) == [timeoutMs |-> ms]

\* reject(new TimeoutError(`Query timeout after ...`, 'getCustomerDashboard'))
TimeoutErr(f) == [name |-> "TimeoutError", id |-> <<f, -1>>, originalError |-> NoId]

\* Promise.race: the first promise to settle decides, later ones are ignored
RaceLastWins(cur, new) == new
RaceWinner(cur, new) == IF cur = Pending THEN new ELSE cur

MetricsConstructor ==
  [totalQueries |-> 0, successfulQueries |-> 0, failedQueries |-> 0, totalDuration |-> 0, latencies |-> <<>>]

\* this.metrics.totalQueries++
MetricsEnterNoCount(m) == m
MetricsEnter(m) == [m EXCEPT !.totalQueries = @ + 1]

\* successfulQueries++; totalDuration += duration; latencies.push(duration)
MetricsOnSuccess(m, d) ==
  [m EXCEPT !.successfulQueries = @ + 1, !.totalDuration = @ + d, !.latencies = Append(@, d)]

\* catch (error) { this.metrics.failedQueries++; throw error; }
MetricsOnFailureNoCount(m) == m
MetricsOnFailure(m) == [m EXCEPT !.failedQueries = @ + 1]

\* [...xs].sort((a, b) => a - b): ascending by value
RECURSIVE SortNum(_)
InsertNum(x, t) ==
  LET k == Cardinality({i \in 1..Len(t) : t[i] <= x})
  IN  SubSeq(t, 1, k) \o <<x>> \o SubSeq(t, k + 1, Len(t))
SortNum(xs) == IF xs = <<>> THEN <<>> ELSE InsertNum(xs[Len(xs)], SortNum(SubSeq(xs, 1, Len(xs) - 1)))

\* Math.floor(length * 0.5), Math.floor(length * 0.95), Math.floor(length * 0.99);
\* p is the percentile in hundredths
PercentileIndexRank(n, p) == (n * p + 99) \div 100 - 1
PercentileIndex(n, p) == (n * p) \div 100
\* sorted[index] || 0: an index past the end gives undefined, and undefined and 0 give 0
AtOrZero(sorted, idx) == IF idx + 1 <= Len(sorted) THEN sorted[idx + 1] ELSE 0

\* getMetrics(): the tallies of this.metrics and the percentiles of the latencies
GetMetrics(m) ==
  LET latencies == SortNum(m.latencies)
  IN  [totalQueries |-> m.totalQueries, successfulQueries |-> m.successfulQueries,
       failedQueries |-> m.failedQueries, totalDuration |-> m.totalDuration,
       p50 |-> AtOrZero(latencies, PercentileIndex(Len(latencies), 50)),
       p95 |-> AtOrZero(latencies, PercentileIndex(Len(latencies), 95)),
       p99 |-> AtOrZero(latencies, PercentileIndex(Len(latencies), 99))]

\* resetMetrics()
ResetMetrics ==
  /\ metrics' = MetricsConstructor
  /\ UNCHANGED <<mPc, mStart, mOutcome, tmo, tTimer, tFireAt, tOutcome, now, retryVars,
                 nonStackVars>>

StackInit ==
  /\ tmo \in {TimeoutConstructor(ms) : ms \in 1..MaxTimeoutMs}
  /\ tTimer = [f \in Fetches |-> "unset"]
  /\ tFireAt = [f \in Fetches |-> 0]
  /\ tOutcome = [f \in Fetches |-> Pending]
  /\ metrics = MetricsConstructor
  /\ mPc = [f \in Fetches |-> "idle"]
  /\ mStart = [f \in Fetches |-> 0]
  /\ mOutcome = [f \in Fetches |-> Pending]

\* the await of the MetricsDecorator resumes with outcome o; m0, pc0 and st are
\* this.metrics, the positions and startTime as left by the earlier code of the same action
MetricsSettles(f, m0, pc0, st, o) ==
  /\ metrics' = IF o.kind = "return"
                  THEN MetricsOnSuccess(m0, now - st)
                  ELSE MetricsOnFailure(m0)
  /\ mPc' = [pc0 EXCEPT ![f] = "done"]
  /\ mOutcome' = [mOutcome EXCEPT ![f] = o]

\* one of the two promises of the race settles with o
RaceSettles(f, m0, pc0, st, o) ==
  /\ tOutcome' = [tOutcome EXCEPT ![f] = RaceWinner(@, o)]
  /\ IF tOutcome[f] = Pending
       THEN MetricsSettles(f, m0, pc0, st, tOutcome'[f])
       ELSE metrics' = m0 /\ mPc' = pc0 /\ UNCHANGED mOutcome

\* the layers above the RetryDecorator after a step of it
AboveRetry(f, m0, pc0, st) ==
  IF rPc'[f] = "done" /\ rPc[f] # "done"
    THEN RaceSettles(f, m0, pc0, st, rOutcome'[f])
    ELSE metrics' = m0 /\ mPc' = pc0 /\ UNCHANGED <<tOutcome, mOutcome>>

\* executor.getCustomerDashboard(customerId) on the outermost decorator, down to
\* the first await of the innermost one
StackCall(f) ==
  /\ mPc[f] = "idle"
  /\ mStart' = [mStart EXCEPT ![f] = now]
  /\ tTimer' = [tTimer EXCEPT ![f] = "armed"]
  /\ tFireAt' = [tFireAt EXCEPT ![f] = now + tmo.timeoutMs]
  /\ RetryStartStep(f)
  /\ AboveRetry(f, MetricsEnter(metrics), [mPc EXCEPT ![f] = "inner"], now)
  /\ UNCHANGED <<tmo, now, nonStackVars>>

\* the strategy's call resolves
StackInnerReturns(f) ==
  /\ RetryInnerReturnsStep(f)
  /\ AboveRetry(f, metrics, mPc, mStart[f])
  /\ UNCHANGED <<tmo, tTimer, tFireAt, mStart, now, nonStackVars>>

\* the strategy's call rejects
StackInnerThrows(f, nm) ==
  /\ RetryInnerThrowsStep(f, nm)
  /\ AboveRetry(f, metrics, mPc, mStart[f])
  /\ UNCHANGED <<tmo, tTimer, tFireAt, mStart, now, nonStackVars>>

\* the backoff timer of the RetryDecorator fires
StackWake(f) ==
  /\ RetryWakeStep(f)
  /\ AboveRetry(f, metrics, mPc, mStart[f])
  /\ UNCHANGED <<tmo, tTimer, tFireAt, mStart, now, nonStackVars>>

\* the timer of _createTimeout fires; it is never cleared
StackTimerFires(f) ==
  /\ tTimer[f] = "armed"
  /\ now >= tFireAt[f]
  /\ tTimer' = [tTimer EXCEPT ![f] = "fired"]
  /\ RaceSettles(f, metrics, mPc, mStart[f], Thrown(TimeoutErr(f)))
  /\ UNCHANGED <<tmo, tFireAt, mStart, now, retryVars, nonStackVars>>

\* ------------------------------------ the MetricsDecorator around any inner layer
MetricsCall(f) ==
  /\ mPc[f] = "idle"
  /\ metrics' = MetricsEnter(metrics)
  /\ mStart' = [mStart EXCEPT ![f] = now]
  /\ mPc' = [mPc EXCEPT ![f] = "inner"]
  /\ UNCHANGED <<mOutcome, tmo, tTimer, tFireAt, tOutcome, now, retryVars, nonStackVars>>

MetricsInnerReturnsStep(f) ==
  /\ mPc[f] = "inner"
  /\ MetricsSettles(f, metrics, mPc, mStart[f], Returned(<<f, 1>>))
  /\ UNCHANGED <<mStart, tmo, tTimer, tFireAt, tOutcome, retryVars>>
MetricsInnerReturns(f) == MetricsInnerReturnsStep(f) /\ UNCHANGED <<now, nonStackVars>>

MetricsInnerThrowsStep(f, nm) ==
  /\ mPc[f] = "inner"
  /\ MetricsSettles(f, metrics, mPc, mStart[f], Thrown(InnerError(f, 1, nm)))
  /\ UNCHANGED <<mStart, tmo, tTimer, tFireAt, tOutcome, retryVars>>
MetricsInnerThrows(f, nm) == MetricsInnerThrowsStep(f, nm) /\ UNCHANGED <<now, nonStackVars>>

\* ================================================== stacking decorators
\* the decorator classes; each extends QueryExecutorDecorator
DecoratorKinds == {"Retry", "Logging", "Metrics", "Timeout", "CircuitBreaker"}

\* the methods an object of the class answers to: those of QueryExecutorDecorator
\* (getCustomerDashboard, getName) and those its own class declares
Methods(k) ==
  {"getCustomerDashboard", "getName"}
    \cup (IF k = "Metrics" THEN {"getMetrics", "resetMetrics"} ELSE {})
    \cup (IF k = "CircuitBreaker" THEN {"getState"} ELSE {})

ChainInit ==
  /\ chain = <<>>
  /\ gm = [kind |-> "none", owner |-> 0]

\* executor = new XDecorator(executor, ...)
ChainWrap(k) ==
  /\ Len(chain) < MaxDepth
  /\ chain' = <<[kind |-> k, id |-> Len(chain) + 1]>> \o chain
  /\ gm' = [kind |-> "none", owner |-> 0]
  /\ UNCHANGED <<now, nonChainVars>>

\* executor.getMetrics() on the outermost decorator: a TypeError when the object
\* has no such method, else the tallies of the object it is called on
ChainGetMetrics ==
  /\ chain # <<>>
  /\ gm' = IF "getMetrics" \in Methods(chain[1].kind)
             THEN [kind |-> "return", owner |-> chain[1].id]
             ELSE [kind |-> "TypeError", owner |-> 0]
  /\ UNCHANGED <<chain, now, nonChainVars>>

\* ============================================================ query strategies
\* ---- the data
NullCustomer == [null |-> TRUE, id |-> 0]
Customer(c) == [null |-> FALSE, id |-> c]
\* pg returns a timestamp column as a Date object
Row(c, k) == [id |-> c, order_id |-> k, created_at |-> [type |-> "Date", t |-> k]]
StoreRows(c) == [k \in 1..store[c] |-> Row(c, k)]

\* _formatCustomerDashboard(rows)
FormatNoLengthCheck(rows) ==
  [customer |-> Customer(IF Len(rows) = 0 THEN 0 ELSE rows[1].id),
   orders |-> [i \in 1..Len(rows) |->
                 [id |-> rows[i].order_id, created_at |-> rows[i].created_at]]]
Format(rows) ==
  IF Len(rows) = 0
    THEN [customer |-> NullCustomer, orders |-> <<>>]
    ELSE [customer |-> Customer(rows[1].id),
          orders |-> [i \in 1..Len(rows) |->
                        [id |-> rows[i].order_id, created_at |-> rows[i].created_at]]]

\* JSON.stringify writes a Date as its ISO string; JSON.parse reads it back as a string
Stringify(d) ==
  [json |-> [customer |-> d.customer,
             orders |-> [i \in 1..Len(d.orders) |->
                           [id |-> d.orders[i].id,
                            created_at |-> [type |-> "string", t |-> d.orders[i].created_at.t]]]]]
Parse(txt) == txt.json

\* ---- outcomes and gateway errors; the operations are numbered
OpGet == 1
OpConnect == 2
OpQuery == 3
OpSetex == 4
GatewayError(f, op) == [name |-> "Error", id |-> <<f, op>>, originalError |-> NoId]
SReturned(d) == [kind |-> "return", value |-> <<d>>, error |-> Undefined]
SThrown(e) == [kind |-> "throw", value |-> <<>>, error |-> e]
SPending == [kind |-> "pending", value |-> <<>>, error |-> Undefined]

RedisCacheConstructor == [cacheHits |-> 0, cacheMisses |-> 0]
HybridConstructor(t) == [hotDataThreshold |-> t, accessCount |-> [c \in CustomerIds |-> 0]]

StratFetchesInit ==
  /\ held = {}
  /\ sPc = [f \in StratFetches |-> "idle"]
  /\ sId = [f \in StratFetches |-> 1]
  /\ sPath = [f \in StratFetches |-> "none"]
  /\ sData = [f \in StratFetches |-> <<>>]
  /\ sOutcome = [f \in StratFetches |-> SPending]
  /\ sGets = [f \in StratFetches |-> 0]
  /\ sReads = [f \in StratFetches |-> 0]
  /\ sReleases = [f \in StratFetches |-> 0]
  /\ sWrites = [f \in StratFetches |-> 0]
  /\ sHit = [f \in StratFetches |-> FALSE]
  /\ sFaults = [f \in StratFetches |-> {}]
  /\ sNth = [f \in StratFetches |-> 0]
  /\ fresh = [c \in CustomerIds |-> <<>>]
  /\ sSeen = [f \in StratFetches |-> <<>>]
  /\ sExpired = [f \in StratFetches |-> FALSE]
  /\ sOverlap = FALSE
  /\ sStrat = [f \in StratFetches |-> "none"]
  /\ sCounted = [f \in StratFetches |-> FALSE]
  /\ flushPc = "idle"
  /\ flushes = 0

StratInit ==
  /\ store = [c \in CustomerIds |-> c % (MaxRows + 1)]
  /\ cache = [c \in CustomerIds |-> <<>>]
  /\ redisStrat = RedisCacheConstructor
  /\ hybrid \in {HybridConstructor(t) : t \in 1..MaxHot}
  /\ StratFetchesInit

\* client.release(): the client goes back to the pool
ReleaseNothing(h, f) == h
Release(h, f) == h \ {f}

\* ---- steps shared by the strategies
\* the bookkeeping of a fetch that starts
Starts(f, c, path, pc) ==
  /\ sPc[f] = "idle"
  /\ sPc' = [sPc EXCEPT ![f] = pc]
  /\ sId' = [sId EXCEPT ![f] = c]
  /\ sPath' = [sPath EXCEPT ![f] = path]
  /\ sGets' = [sGets EXCEPT ![f] = IF pc = "get" THEN 1 ELSE 0]
  /\ sNth' = [sNth EXCEPT ![f] = 1 + Cardinality({g \in StratFetches : sPc[g] # "idle" /\ sId[g] = c})]
  /\ sSeen' = [sSeen EXCEPT ![f] = fresh[c]]
  /\ sOverlap' = (sOverlap \/ \E g \in StratFetches : sPc[g] \notin {"idle", "done"})

\* the fetch ends with outcome o
Ends(f, o) ==
  /\ sPc' = [sPc EXCEPT ![f] = "done"]
  /\ sOutcome' = [sOutcome EXCEPT ![f] = o]

\* a gateway operation of the fetch rejects; nothing in the strategies catches it
Fails(f, op) ==
  /\ sFaults' = [sFaults EXCEPT ![f] = @ \cup {op}]
  /\ Ends(f, SThrown(GatewayError(f, op)))

\* the time-to-live of an entry elapses
CacheExpire(c) ==
  /\ cache[c] # <<>>
  /\ cache' = [cache EXCEPT ![c] = <<>>]
  /\ fresh' = [fresh EXCEPT ![c] = <<>>]
  /\ sExpired' = [f \in StratFetches |->
                    sExpired[f] \/ (sId[f] = c /\ sPc[f] \notin {"idle", "done"})]
  /\ UNCHANGED <<store, redisStrat, hybrid, held, sPc, sId, sPath, sStrat, sCounted, flushPc,
                 flushes, sData, sOutcome, sGets, sReads, sReleases, sWrites, sHit, sFaults,
                 sNth, sSeen, sOverlap, now, nonStratVars>>

\* ---- RedisCacheStrategy.getCustomerDashboard
\* if (cached): redis.get gives null for an absent key
IsCachedNever(cached) == FALSE
IsCached(cached) == cached # <<>>

\* const cached = await this.redis.get(cacheKey): the command is sent
RCStart(f, c) ==
  /\ Starts(f, c, "cache", "get")
  /\ sStrat' = [sStrat EXCEPT ![f] = "redis"]
  /\ UNCHANGED <<store, cache, redisStrat, hybrid, held, sData, sOutcome, sReads, sReleases,
                 sWrites, sHit, sFaults, fresh, sExpired, sCounted, flushPc, flushes, now,
                 nonStratVars>>

\* redis.get resolved: a hit returns JSON.parse(cached), a miss asks the pool for a client
RCGetReturns(f) ==
  /\ sPc[f] = "get" /\ sStrat[f] = "redis"
  /\ sCounted' = [sCounted EXCEPT ![f] = TRUE]
  /\ IF IsCached(cache[sId[f]])
       THEN /\ redisStrat' = [redisStrat EXCEPT !.cacheHits = @ + 1]
            /\ sHit' = [sHit EXCEPT ![f] = TRUE]
            /\ Ends(f, SReturned(Parse(cache[sId[f]][1])))
       ELSE /\ redisStrat' = [redisStrat EXCEPT !.cacheMisses = @ + 1]
            /\ sPc' = [sPc EXCEPT ![f] = "connect"]
            /\ UNCHANGED <<sHit, sOutcome>>
  /\ UNCHANGED <<store, cache, hybrid, held, sId, sPath, sStrat, flushPc, flushes, sData,
                 sGets, sReads, sReleases, sWrites, sFaults, sNth, fresh, sSeen, sOverlap,
                 sExpired, now, nonStratVars>>

\* redis.get rejected
RCGetFails(f) ==
  /\ sPc[f] = "get" /\ sStrat[f] = "redis"
  /\ Fails(f, OpGet)
  /\ UNCHANGED <<store, cache, redisStrat, hybrid, held, sId, sPath, sStrat, sCounted, flushPc,
                 flushes, sData, sGets, sReads, sReleases, sWrites, sHit, sNth, fresh, sSeen,
                 sOverlap, sExpired, now, nonStratVars>>

\* pgPool.connect() resolved: the query is sent
RCConnected(f) ==
  /\ sPc[f] = "connect" /\ sStrat[f] = "redis"
  /\ held' = held \cup {f}
  /\ sReads' = [sReads EXCEPT ![f] = @ + 1]
  /\ sPc' = [sPc EXCEPT ![f] = "query"]
  /\ UNCHANGED <<store, cache, redisStrat, hybrid, sId, sPath, sStrat, sCounted, flushPc,
                 flushes, sData, sOutcome, sGets, sReleases, sWrites, sHit, sFaults, sNth,
                 fresh, sSeen, sOverlap, sExpired, now, nonStratVars>>

\* pgPool.connect() rejected, before the try block
RCConnectFails(f) ==
  /\ sPc[f] = "connect" /\ sStrat[f] = "redis"
  /\ Fails(f, OpConnect)
  /\ UNCHANGED <<store, cache, redisStrat, hybrid, held, sId, sPath, sStrat, sCounted, flushPc,
                 flushes, sData, sGets, sReads, sReleases, sWrites, sHit, sNth, fresh, sSeen,
                 sOverlap, sExpired, now, nonStratVars>>

\* client.query resolved: the rows are formatted and redis.setex is sent
RCQueryReturns(f) ==
  /\ sPc[f] = "query" /\ sStrat[f] = "redis"
  /\ sData' = [sData EXCEPT ![f] = <<Format(StoreRows(sId[f]))>>]
  /\ sWrites' = [sWrites EXCEPT ![f] = @ + 1]
  /\ sPc' = [sPc EXCEPT ![f] = "setex"]
  /\ UNCHANGED <<store, cache, redisStrat, hybrid, held, sId, sPath, sStrat, sCounted, flushPc,
                 flushes, sOutcome, sGets, sReads, sReleases, sHit, sFaults, sNth, fresh,
                 sSeen, sOverlap, sExpired, now, nonStratVars>>

\* client.query rejected: finally { client.release() }
RCQueryFails(f) ==
  /\ sPc[f] = "query" /\ sStrat[f] = "redis"
  /\ held' = Release(held, f)
  /\ sReleases' = [sReleases EXCEPT ![f] = @ + 1]
  /\ Fails(f, OpQuery)
  /\ UNCHANGED <<store, cache, redisStrat, hybrid, sId, sPath, sStrat, sCounted, flushPc,
                 flushes, sData, sGets, sReads, sWrites, sHit, sNth, fresh, sSeen, sOverlap,
                 sExpired, now, nonStratVars>>

\* redis.setex resolved: the entry is stored; return data; finally { client.release() }
RCSetexReturns(f) ==
  /\ sPc[f] = "setex" /\ sStrat[f] = "redis"
  /\ cache' = [cache EXCEPT ![sId[f]] = <<Stringify(sData[f][1])>>]
  /\ fresh' = [fresh EXCEPT ![sId[f]] = sData[f]]
  /\ held' = Release(held, f)
  /\ sReleases' = [sReleases EXCEPT ![f] = @ + 1]
  /\ Ends(f, SReturned(sData[f][1]))
  /\ UNCHANGED <<store, redisStrat, hybrid, sId, sPath, sStrat, sCounted, flushPc, flushes,
                 sData, sGets, sReads, sWrites, sHit, sFaults, sNth, sSeen, sOverlap, sExpired,
                 now, nonStratVars>>

\* redis.setex rejected: finally { client.release() } and the error leaves the method
RCSetexFails(f) ==
  /\ sPc[f] = "setex" /\ sStrat[f] = "redis"
  /\ held' = Release(held, f)
  /\ sReleases' = [sReleases EXCEPT ![f] = @ + 1]
  /\ Fails(f, OpSetex)
  /\ UNCHANGED <<store, cache, redisStrat, hybrid, sId, sPath, sStrat, sCounted, flushPc,
                 flushes, sData, sGets, sReads, sWrites, sHit, sNth, fresh, sSeen, sOverlap,
                 sExpired, now, nonStratVars>>

\* ---- RedisCacheStrategy.flushCache and getCacheStats
\* this.cacheHits = 0; this.cacheMisses = 0
FlushResetHitsOnly(rs) == [rs EXCEPT !.cacheHits = 0]
FlushReset(rs) == [rs EXCEPT !.cacheHits = 0, !.cacheMisses = 0]

\* getCacheStats(): hits, misses and their total
GetCacheStats(rs) ==
  [hits |-> rs.cacheHits, misses |-> rs.cacheMisses, total |-> rs.cacheHits + rs.cacheMisses]

\* await this.redis.flushall(): the command is sent
FlushStart ==
  /\ flushPc = "idle"
  /\ flushes < MaxFlushes
  /\ flushPc' = "sent"
  /\ flushes' = flushes + 1
  /\ UNCHANGED <<store, cache, redisStrat, hybrid, held, sPc, sId, sPath, sStrat, sCounted,
                 sData, sOutcome, sGets, sReads, sReleases, sWrites, sHit, sFaults, sNth,
                 fresh, sSeen, sOverlap, sExpired, now, nonStratVars>>

\* the keys are gone
Flushed ==
  /\ cache' = [c \in CustomerIds |-> <<>>]
  /\ fresh' = [c \in CustomerIds |-> <<>>]
  /\ sExpired' = [f \in StratFetches |-> sExpired[f] \/ sPc[f] \notin {"idle", "done"}]

\* flushall resolved. The client has one connection and its replies come in the order
\* of its commands, so the counters are reset before the continuation of any redis.get
\* answered after the flush runs.
FlushReturns ==
  /\ flushPc = "sent"
  /\ Flushed
  /\ redisStrat' = FlushReset(redisStrat)
  /\ sCounted' = [f \in StratFetches |-> FALSE]
  /\ flushPc' = "idle"
  /\ UNCHANGED <<store, hybrid, held, sPc, sId, sPath, sStrat, flushes, sData, sOutcome,
                 sGets, sReads, sReleases, sWrites, sHit, sFaults, sNth, sSeen, sOverlap, now,
                 nonStratVars>>

\* flushall rejected, with the keys removed or not: the counters keep their values
FlushFails(removed) ==
  /\ flushPc = "sent"
  /\ IF removed THEN Flushed ELSE UNCHANGED <<cache, fresh, sExpired>>
  /\ flushPc' = "idle"
  /\ UNCHANGED <<store, redisStrat, hybrid, held, sPc, sId, sPath, sStrat, sCounted, flushes,
                 sData, sOutcome, sGets, sReads, sReleases, sWrites, sHit, sFaults, sNth, sSeen,
                 sOverlap, now, nonStratVars>>

\* ---- HybridStrategy.getCustomerDashboard
\* count = (this.accessCount.get(customerId) || 0) + 1; this.accessCount.set(customerId, count)
BumpOnce(ac, c) == [ac EXCEPT ![c] = IF @ = 0 THEN 1 ELSE @]
Bump(ac, c) == [ac EXCEPT ![c] = @ + 1]

\* if (count >= this.hotDataThreshold)
IsHotAbove(count, t) == count > t
IsHot(count, t) == count >= t

\* the count is updated and the path chosen before the first await; the hot path sends
\* redis.get, the cold path asks the pool for a client
HYStart(f, c) ==
  /\ hybrid' = [hybrid EXCEPT !.accessCount = Bump(@, c)]
  /\ IF IsHot(hybrid'.accessCount[c], hybrid.hotDataThreshold)
       THEN Starts(f, c, "cache", "get")
       ELSE Starts(f, c, "direct", "connect")
  /\ sStrat' = [sStrat EXCEPT ![f] = "hybrid"]
  /\ UNCHANGED <<store, cache, redisStrat, held, sData, sOutcome, sReads, sReleases, sWrites,
                 sHit, sFaults, fresh, sExpired, sCounted, flushPc, flushes, now,
                 nonStratVars>>

\* _getFromRedis: redis.get resolved
HYGetReturns(f) ==
  /\ sPc[f] = "get" /\ sStrat[f] = "hybrid"
  /\ IF IsCached(cache[sId[f]])
       THEN /\ sHit' = [sHit EXCEPT ![f] = TRUE]
            /\ Ends(f, SReturned(Parse(cache[sId[f]][1])))
       ELSE /\ sPc' = [sPc EXCEPT ![f] = "connect"]
            /\ UNCHANGED <<sHit, sOutcome>>
  /\ UNCHANGED <<store, cache, redisStrat, hybrid, held, sId, sPath, sStrat, sCounted, flushPc,
                 flushes, sData, sGets, sReads, sReleases, sWrites, sFaults, sNth, fresh,
                 sSeen, sOverlap, sExpired, now, nonStratVars>>

\* _getFromRedis: redis.get rejected
HYGetFails(f) ==
  /\ sPc[f] = "get" /\ sStrat[f] = "hybrid"
  /\ Fails(f, OpGet)
  /\ UNCHANGED <<store, cache, redisStrat, hybrid, held, sId, sPath, sStrat, sCounted, flushPc,
                 flushes, sData, sGets, sReads, sReleases, sWrites, sHit, sNth, fresh, sSeen,
                 sOverlap, sExpired, now, nonStratVars>>

\* _getFromPostgres: pgPool.connect() resolved, the query is sent
HYConnected(f) ==
  /\ sPc[f] = "connect" /\ sStrat[f] = "hybrid"
  /\ held' = held \cup {f}
  /\ sReads' = [sReads EXCEPT ![f] = @ + 1]
  /\ sPc' = [sPc EXCEPT ![f] = "query"]
  /\ UNCHANGED <<store, cache, redisStrat, hybrid, sId, sPath, sStrat, sCounted, flushPc,
                 flushes, sData, sOutcome, sGets, sReleases, sWrites, sHit, sFaults, sNth,
                 fresh, sSeen, sOverlap, sExpired, now, nonStratVars>>

\* _getFromPostgres: pgPool.connect() rejected
HYConnectFails(f) ==
  /\ sPc[f] = "connect" /\ sStrat[f] = "hybrid"
  /\ Fails(f, OpConnect)
  /\ UNCHANGED <<store, cache, redisStrat, hybrid, held, sId, sPath, sStrat, sCounted, flushPc,
                 flushes, sData, sGets, sReads, sReleases, sWrites, sHit, sNth, fresh, sSeen,
                 sOverlap, sExpired, now, nonStratVars>>

\* _getFromPostgres: client.query resolved; the client is released; the cold path returns
\* the record, the hot path sends redis.setex
HYQueryReturns(f) ==
  /\ sPc[f] = "query" /\ sStrat[f] = "hybrid"
  /\ held' = Release(held, f)
  /\ sReleases' = [sReleases EXCEPT ![f] = @ + 1]
  /\ sData' = [sData EXCEPT ![f] = <<Format(StoreRows(sId[f]))>>]
  /\ IF sPath[f] = "direct"
       THEN /\ Ends(f, SReturned(Format(StoreRows(sId[f]))))
            /\ UNCHANGED sWrites
       ELSE /\ sWrites' = [sWrites EXCEPT ![f] = @ + 1]
            /\ sPc' = [sPc EXCEPT ![f] = "setex"]
            /\ UNCHANGED sOutcome
  /\ UNCHANGED <<store, cache, redisStrat, hybrid, sId, sPath, sStrat, sCounted, flushPc,
                 flushes, sGets, sReads, sHit, sFaults, sNth, fresh, sSeen, sOverlap, sExpired,
                 now, nonStratVars>>

\* _getFromPostgres: client.query rejected: finally { client.release() }
HYQueryFails(f) ==
  /\ sPc[f] = "query" /\ sStrat[f] = "hybrid"
  /\ held' = Release(held, f)
  /\ sReleases' = [sReleases EXCEPT ![f] = @ + 1]
  /\ Fails(f, OpQuery)
  /\ UNCHANGED <<store, cache, redisStrat, hybrid, sId, sPath, sStrat, sCounted, flushPc,
                 flushes, sData, sGets, sReads, sWrites, sHit, sNth, fresh, sSeen, sOverlap,
                 sExpired, now, nonStratVars>>

\* _getFromRedis: redis.setex resolved
HYSetexReturns(f) ==
  /\ sPc[f] = "setex" /\ sStrat[f] = "hybrid"
  /\ cache' = [cache EXCEPT ![sId[f]] = <<Stringify(sData[f][1])>>]
  /\ fresh' = [fresh EXCEPT ![sId[f]] = sData[f]]
  /\ Ends(f, SReturned(sData[f][1]))
  /\ UNCHANGED <<store, redisStrat, hybrid, held, sId, sPath, sStrat, sCounted, flushPc,
                 flushes, sData, sGets, sReads, sReleases, sWrites, sHit, sFaults, sNth, sSeen,
                 sOverlap, sExpired, now, nonStratVars>>

\* _getFromRedis: redis.setex rejected
HYSetexFails(f) ==
  /\ sPc[f] = "setex" /\ sStrat[f] = "hybrid"
  /\ Fails(f, OpSetex)
  /\ UNCHANGED <<store, cache, redisStrat, hybrid, held, sId, sPath, sStrat, sCounted, flushPc,
                 flushes, sData, sGets, sReads, sReleases, sWrites, sHit, sNth, fresh, sSeen,
                 sOverlap, sExpired, now, nonStratVars>>

\* ---- DirectPostgreSQLStrategy.getCustomerDashboard
\* const client = await this.pgPool.connect(): the pool is asked for a client
PGStart(f, c) ==
  /\ Starts(f, c, "direct", "connect")
  /\ sStrat' = [sStrat EXCEPT ![f] = "postgres"]
  /\ UNCHANGED <<store, cache, redisStrat, hybrid, held, sData, sOutcome, sReads, sReleases,
                 sWrites, sHit, sFaults, fresh, sExpired, sCounted, flushPc, flushes, now,
                 nonStratVars>>

\* pgPool.connect() resolved: the query is sent
PGConnected(f) ==
  /\ sPc[f] = "connect" /\ sStrat[f] = "postgres"
  /\ held' = held \cup {f}
  /\ sReads' = [sReads EXCEPT ![f] = @ + 1]
  /\ sPc' = [sPc EXCEPT ![f] = "query"]
  /\ UNCHANGED <<store, cache, redisStrat, hybrid, sId, sPath, sStrat, sCounted, flushPc,
                 flushes, sData, sOutcome, sGets, sReleases, sWrites, sHit, sFaults, sNth,
                 fresh, sSeen, sOverlap, sExpired, now, nonStratVars>>

\* pgPool.connect() rejected, before the try block
PGConnectFails(f) ==
  /\ sPc[f] = "connect" /\ sStrat[f] = "postgres"
  /\ Fails(f, OpConnect)
  /\ UNCHANGED <<store, cache, redisStrat, hybrid, held, sId, sPath, sStrat, sCounted, flushPc,
                 flushes, sData, sGets, sReads, sReleases, sWrites, sHit, sNth, fresh, sSeen,
                 sOverlap, sExpired, now, nonStratVars>>

\* client.query resolved: return this._formatCustomerDashboard(result.rows);
\* finally { client.release() }
PGQueryReturns(f) ==
  /\ sPc[f] = "query" /\ sStrat[f] = "postgres"
  /\ held' = Release(held, f)
  /\ sReleases' = [sReleases EXCEPT ![f] = @ + 1]
  /\ sData' = [sData EXCEPT ![f] = <<Format(StoreRows(sId[f]))>>]
  /\ Ends(f, SReturned(Format(StoreRows(sId[f]))))
  /\ UNCHANGED <<store, cache, redisStrat, hybrid, sId, sPath, sStrat, sCounted, flushPc,
                 flushes, sGets, sReads, sWrites, sHit, sFaults, sNth, fresh, sSeen, sOverlap,
                 sExpired, now, nonStratVars>>

\* client.query rejected: finally { client.release() }
PGQueryFails(f) ==
  /\ sPc[f] = "query" /\ sStrat[f] = "postgres"
  /\ held' = Release(held, f)
  /\ sReleases' = [sReleases EXCEPT ![f] = @ + 1]
  /\ Fails(f, OpQuery)
  /\ UNCHANGED <<store, cache, redisStrat, hybrid, sId, sPath, sStrat, sCounted, flushPc,
                 flushes, sData, sGets, sReads, sWrites, sHit, sNth, fresh, sSeen, sOverlap,
                 sExpired, now, nonStratVars>>

\* ============================================================ PerformanceMonitor
\* if (queryInfo.duration > 1000)
SlowThreshold == 1000

\* the object {} : it has no update method; the objects of ObserverIds have one
NoUpdateObject == 0
HasUpdate(o) == o \in ObserverIds

\* the values of queryInfo.error: null, the empty message and a message
ErrorValues == {"null", "", "message"}
Durations == {0, SlowThreshold, SlowThreshold + 1}
\* if (queryInfo.error): null and the empty string are falsy
Truthy(e) == e \notin {"null", ""}

QueryInfo(n, d, e) == [customerId |-> n, duration |-> d, error |-> e]
\* { ...queryInfo, timestamp: Date.now() }
Stamped(q, t) ==
  [customerId |-> q.customerId, duration |-> q.duration, error |-> q.error, timestamp |-> t]
SlowAlert(q, t) ==
  [type |-> "SLOW_QUERY", message |-> <<"Slow query detected", q.duration>>,
   data |-> q, timestamp |-> t]
ErrorAlert(q, t) ==
  [type |-> "QUERY_ERROR", message |-> <<"Query error", q.error>>, data |-> q, timestamp |-> t]
AlertNote(a) == [type |-> "ALERT", alert |-> a.type, data |-> a.data]
EventNote(q) == [type |-> "QUERY_EXECUTED", alert |-> "none", data |-> q]

IsSlow(q) == q.duration > SlowThreshold

\* notify(event): for (const observer of this.observers) observer.update(event), with
\* no try/catch: the loop ends at the first observer whose update raises. bad is the
\* set of observers whose update raises during the call at hand.
FirstBad(obs, bad) ==
  IF \E i \in 1..Len(obs) : obs[i] \in bad
    THEN CHOOSE i \in 1..Len(obs) : obs[i] \in bad /\ \A j \in 1..(i - 1) : obs[j] \notin bad
    ELSE 0
NotifyThrows(obs, bad) == FirstBad(obs, bad) # 0
NotifyRun(obs, note, bad) ==
  [i \in 1..(IF NotifyThrows(obs, bad) THEN FirstBad(obs, bad) ELSE Len(obs)) |->
     [to |-> obs[i], note |-> note]]

\* this.observers.filter((obs) => obs !== observer)
WithoutFirst(obs, o) ==
  IF \E i \in 1..Len(obs) : obs[i] = o
    THEN LET k == CHOOSE i \in 1..Len(obs) : obs[i] = o /\ \A j \in 1..(i - 1) : obs[j] # o
         IN  SubSeq(obs, 1, k - 1) \o SubSeq(obs, k + 1, Len(obs))
    ELSE obs
Without(obs, o) == SelectSeq(obs, LAMBDA x : x # o)

NoCall == [op |-> "none", arg |-> 0, threw |-> FALSE, bad |-> {}]

MonInit ==
  /\ observers = <<>>
  /\ monQueries = <<>>
  /\ monAlerts = <<>>
  /\ monCall = NoCall
  /\ delivered = <<>>
  /\ gone = {}

\* subscribe(observer)
Subscribe(o) ==
  /\ Len(observers) < MaxSubscribed
  /\ IF HasUpdate(o)
       THEN /\ observers' = Append(observers, o)
            /\ gone' = gone \ {o}
            /\ monCall' = [op |-> "subscribe", arg |-> o, threw |-> FALSE, bad |-> {}]
       ELSE /\ monCall' = [op |-> "subscribe", arg |-> o, threw |-> TRUE, bad |-> {}]
            /\ UNCHANGED <<observers, gone>>
  /\ delivered' = <<>>
  /\ UNCHANGED <<monQueries, monAlerts, now, nonMonVars>>

\* unsubscribe(observer)
Unsubscribe(o) ==
  /\ observers' = Without(observers, o)
  /\ gone' = gone \cup {o}
  /\ monCall' = [op |-> "unsubscribe", arg |-> o, threw |-> FALSE, bad |-> {}]
  /\ delivered' = <<>>
  /\ UNCHANGED <<monQueries, monAlerts, now, nonMonVars>>

\* recordQuery(queryInfo), with _checkPerformance and the notify calls it makes; an
\* exception raised by an update leaves notify, _checkPerformance and recordQuery
RecordQueryStep(q, bad) ==
  LET slow == IsSlow(q)
      err == Truthy(q.error)
      throws == NotifyThrows(observers, bad)
      a1 == IF slow THEN Append(monAlerts, SlowAlert(q, now)) ELSE monAlerts
      d1 == IF slow THEN NotifyRun(observers, AlertNote(SlowAlert(q, now)), bad) ELSE <<>>
      t1 == slow /\ throws
      a2 == IF ~t1 /\ err THEN Append(a1, ErrorAlert(q, now)) ELSE a1
      d2 == IF ~t1 /\ err
              THEN d1 \o NotifyRun(observers, AlertNote(ErrorAlert(q, now)), bad) ELSE d1
      t2 == t1 \/ (err /\ throws)
      d3 == IF ~t2 THEN d2 \o NotifyRun(observers, EventNote(q), bad) ELSE d2
      t3 == t2 \/ throws
  IN  /\ monQueries' = Append(monQueries, Stamped(q, now))
      /\ monAlerts' = a2
      /\ delivered' = d3
      /\ monCall' = [op |-> "recordQuery", arg |-> q.customerId, threw |-> t3,
                      bad |-> {o \in bad : \E i \in 1..Len(observers) : observers[i] = o}]
      /\ UNCHANGED <<observers, gone>>

RecordQuery(d, e, bad) ==
  /\ Len(monQueries) < MaxEvents
  /\ RecordQueryStep(QueryInfo(Len(monQueries) + 1, d, e), bad)
  /\ UNCHANGED <<now, nonMonVars>>

\* getSummary(): null, written <<>>, for an empty history, else <<summary>>
GetSummary(queries, alerts) ==
  IF Len(queries) = 0
    THEN <<>>
    ELSE LET durations == [i \in 1..Len(queries) |-> queries[i].duration]
             sorted == SortNum(durations)
         IN  <<[totalQueries |-> Len(queries),
                p50 |-> sorted[PercentileIndex(Len(sorted), 50) + 1],
                p95 |-> sorted[PercentileIndex(Len(sorted), 95) + 1],
                p99 |-> sorted[PercentileIndex(Len(sorted), 99) + 1],
                alerts |-> Len(alerts)]>>

\* ---- the benchmark loop: each fetch goes through a MetricsDecorator and is then
\* recorded in the monitor, in the continuation of the same await
\* this.monitor.subscribe(new ConsoleObserver()); this.monitor.subscribe(metricsObserver)
RunnerObservers == <<1, 2>>
RunnerReturns(f) ==
  /\ MetricsInnerReturnsStep(f)
  /\ RecordQueryStep(QueryInfo(f, now - mStart[f], "null"), {})
  /\ UNCHANGED <<now, cbVars, chainVars, stratVars, layerVars, dbVars, qbVars>>
RunnerThrows(f, nm) ==
  /\ MetricsInnerThrowsStep(f, nm)
  /\ RecordQueryStep(QueryInfo(f, now - mStart[f], "message"), {})
  /\ UNCHANGED <<now, cbVars, chainVars, stratVars, layerVars, dbVars, qbVars>>

\* ============================================================ a fetch through a stack
\* The decorators are built with their default arguments.
DefaultMaxRetries == 3
DefaultInitialDelay == 100
DefaultTimeoutMs == 5000
DefaultThreshold == 5
DefaultResetTimeout == 60000

\* new XDecorator(executor)
NewLayer(k) ==
  [kind |-> k,
   obj |-> CASE k = "Retry" -> RetryConstructor(DefaultMaxRetries, DefaultInitialDelay)
             [] k = "Timeout" -> TimeoutConstructor(DefaultTimeoutMs)
             [] k = "CircuitBreaker" -> CBConstructor(DefaultThreshold, DefaultResetTimeout)
             [] k = "Metrics" -> MetricsConstructor
             [] OTHER -> [logger |-> "console"]]

\* what the strategy does on its n-th call: "ok" or the name of the error it throws
ScriptOutcomes == {"ok"} \cup InnerErrorNames
Scripts == UNION {[1..n -> ScriptOutcomes] : n \in 1..MaxScriptLen}
ScriptAt(script, n) == IF n <= Len(script) THEN script[n] ELSE script[Len(script)]

\* throw new Error('Circuit breaker is OPEN - service unavailable')
OpenError == [name |-> "Error", id |-> <<1, -2>>, originalError |-> NoId]

Ev(ev, level, what, out) == [ev |-> ev, level |-> level, what |-> what, out |-> out]

\* this.logger.log(`[Query] Success ...`) or this.logger.error(`[Query] Failed ...`)
LogEntryAlwaysSuccess(out) == "Success"
LogEntryFor(out) == IF out.kind = "return" THEN "Success" ELSE "Failed"

\* st: the stack L, the strategy calls made, the trace and the clock t of the fetch.
\* CallLayer(i, ...) is getCustomerDashboard of the i-th object; past the last
\* decorator it is the strategy's.
RECURSIVE CallLayer(_, _, _, _)
RECURSIVE RetryLoop(_, _, _, _, _)

CallStrategy(st, script) ==
  LET n == st.calls + 1
      lv == Len(st.L) + 1
      o == IF ScriptAt(script, n) = "ok"
             THEN Returned(<<1, n>>)
             ELSE Thrown(InnerError(1, n, ScriptAt(script, n)))
  IN  [out |-> o,
       st |-> [st EXCEPT !.calls = n,
                         !.trace = @ \o <<Ev("call", lv, "Strategy", Pending),
                                          Ev("settle", lv, "Strategy", o)>>]]

ThroughLogging(i, st, script, fires) ==
  LET s1 == [st EXCEPT !.trace = Append(@, Ev("log", i, "Starting", Pending))]
      r == CallLayer(i + 1, s1, script, fires)
  IN  [out |-> r.out,
       st |-> [r.st EXCEPT !.trace = Append(@, Ev("log", i, LogEntryFor(r.out), Pending))]]

ThroughMetrics(i, st, script, fires) ==
  LET s1 == [st EXCEPT !.L[i].obj = MetricsEnter(@)]
      r == CallLayer(i + 1, s1, script, fires)
  IN  [out |-> r.out,
       st |-> [r.st EXCEPT !.L[i].obj = IF r.out.kind = "return"
                                          THEN MetricsOnSuccess(@, r.st.t - st.t)
                                          ELSE MetricsOnFailure(@)]]

\* Promise.race of the inner call and the timer; the inner call runs on either way
ThroughTimeoutAlwaysFires(i, st, script, fires) ==
  LET r == CallLayer(i + 1, st, script, fires)
  IN  [out |-> Thrown(TimeoutErr(1)), st |-> r.st]
ThroughTimeout(i, st, script, fires) ==
  LET r == CallLayer(i + 1, st, script, fires)
  IN  [out |-> IF i \in fires THEN Thrown(TimeoutErr(1)) ELSE r.out, st |-> r.st]

ThroughCircuitBreaker(i, st, script, fires) ==
  IF ShortCircuits(st.L[i].obj, st.t)
    THEN [out |-> Thrown(OpenError), st |-> st]
    ELSE LET s1 == [st EXCEPT !.L[i].obj = Admit(@)]
             r == CallLayer(i + 1, s1, script, fires)
         IN  [out |-> r.out,
              st |-> [r.st EXCEPT !.L[i].obj = IF r.out.kind = "return"
                                                 THEN onSuccess(@)
                                                 ELSE onFailure(@, r.st.t)]]

RetryLoop(i, st, script, fires, a) ==
  LET r == CallLayer(i + 1, st, script, fires)
      o == st.L[i].obj
  IN  IF r.out.kind = "return" THEN r
      ELSE IF NotRetried(r.out.error) THEN r
      ELSE IF IsLastAttempt(a, o.maxRetries)
        THEN [out |-> Thrown(Exhausted(1, r.out.error)), st |-> r.st]
      ELSE RetryLoop(i, [r.st EXCEPT !.t = @ + Backoff(o.initialDelay, a)], script, fires, a + 1)

CallLayer(i, st, script, fires) ==
  IF i > Len(st.L)
    THEN CallStrategy(st, script)
    ELSE LET k == st.L[i].kind
             s0 == [st EXCEPT !.trace = Append(@, Ev("call", i, k, Pending))]
             r == CASE k = "Logging" -> ThroughLogging(i, s0, script, fires)
                    [] k = "Metrics" -> ThroughMetrics(i, s0, script, fires)
                    [] k = "Timeout" -> ThroughTimeout(i, s0, script, fires)
                    [] k = "CircuitBreaker" -> ThroughCircuitBreaker(i, s0, script, fires)
                    [] OTHER -> RetryLoop(i, s0, script, fires, 0)
         IN  [out |-> r.out,
              st |-> [r.st EXCEPT !.trace = Append(@, Ev("settle", i, k, r.out))]]

TimeoutLevels(L) == {i \in 1..Len(L) : L[i].kind = "Timeout"}

LayerInit ==
  /\ layers = <<>>
  /\ lOut = Pending
  /\ lCalls = 0
  /\ lTrace = <<>>
  /\ lFires = {}
  /\ lFetches = 0

\* executor = new XDecorator(executor)
LayerWrap(k) ==
  /\ Len(layers) < MaxLayers
  /\ lFetches = 0
  /\ layers' = <<NewLayer(k)>> \o layers
  /\ UNCHANGED <<lOut, lCalls, lTrace, lFires, lFetches, now, nonLayerVars>>

\* executor.getCustomerDashboard(1), followed until every layer has settled
LayerFetch(script, fires) ==
  /\ lFetches < MaxLayerFetches
  /\ LET r == CallLayer(1, [L |-> layers, calls |-> 0, trace |-> <<>>, t |-> now], script, fires)
     IN  /\ layers' = r.st.L
         /\ lOut' = r.out
         /\ lCalls' = r.st.calls
         /\ lTrace' = r.st.trace
         /\ now' = r.st.t
  /\ lFires' = fires
  /\ lFetches' = lFetches + 1
  /\ UNCHANGED nonLayerVars

\* ============================================================ specifications
\* the objects that take no part in a specification stay as constructed
CBParked ==
  /\ cb = CBConstructor(1, 1)
  /\ callPc = [c \in CallIds |-> "idle"]
  /\ callSeen = [c \in CallIds |-> "CLOSED"]
  /\ callOutcome = [c \in CallIds |-> "none"]
  /\ callInner = [c \in CallIds |-> 0]
  /\ arrivals = 0
  /\ run = 0
  /\ overlapped = FALSE
  /\ healed = FALSE

RetryParked ==
  /\ retry = RetryConstructor(0, 1)
  /\ rPc = [f \in Fetches |-> "idle"]
  /\ attempt = [f \in Fetches |-> 0]
  /\ lastError = [f \in Fetches |-> Undefined]
  /\ wakeAt = [f \in Fetches |-> 0]
  /\ rOutcome = [f \in Fetches |-> Pending]
  /\ rCalls = [f \in Fetches |-> 0]
  /\ rLog = [f \in Fetches |-> <<>>]
  /\ rSleeps = [f \in Fetches |-> <<>>]
  /\ rOk = [f \in Fetches |-> NoId]

StackParked ==
  /\ tmo = TimeoutConstructor(1)
  /\ tTimer = [f \in Fetches |-> "unset"]
  /\ tFireAt = [f \in Fetches |-> 0]
  /\ tOutcome = [f \in Fetches |-> Pending]
  /\ metrics = MetricsConstructor
  /\ mPc = [f \in Fetches |-> "idle"]
  /\ mStart = [f \in Fetches |-> 0]
  /\ mOutcome = [f \in Fetches |-> Pending]

ChainParked == ChainInit

MonParked == MonInit
LayerParked == LayerInit

\* =============================================================== QueryBuilder
MaxBuilds == 3
MaxLimit == 1
MaxStatuses == 2
DashboardLimit == 10
DefaultLimit == 20
Statuses == {"pending", "processing"}
DefaultStatuses == <<"pending", "processing">>

\* a piece of query text or a parameter value: a string, a number, or the
\* placeholder $n
Lit(str) == [s |-> str, n |-> 0]
Num(k) == [s |-> "#", n |-> k]
Placeholder(k) == [s |-> "$", n |-> k]
Lits(strs) == [i \in 1..Len(strs) |-> Lit(strs[i])]

\* Array.prototype.join over pieces of text
RECURSIVE Join(_, _)
Join(items, sep) ==
  IF Len(items) = 0 THEN <<>>
  ELSE IF Len(items) = 1 THEN items[1]
  ELSE items[1] \o <<Lit(sep)>> \o Join(Tail(items), sep)

QBReset ==
  [select |-> <<>>, from |-> "", joins |-> <<>>, where |-> <<>>, orderBy |-> <<>>,
   limit |-> Null, offset |-> Null, params |-> <<>>, paramIndex |-> 1]

Select(b, columns) == [b EXCEPT !.select = @ \o columns]
From(b, table) == [b EXCEPT !.from = table]
LeftJoin(b, table, condition) ==
  [b EXCEPT !.joins = Append(@, [type |-> "LEFT JOIN", table |-> table, condition |-> condition])]

\* String.prototype.replace('?', ...): the first '?' of the condition, if any
ReplaceFirst(cond, tok) ==
  IF \E i \in 1..Len(cond) : cond[i] = Lit("?")
    THEN LET i == CHOOSE j \in 1..Len(cond) :
                    cond[j] = Lit("?") /\ \A k \in 1..(j - 1) : cond[k] # Lit("?")
         IN  [cond EXCEPT ![i] = tok]
    ELSE cond

\* _processCondition: the builder and the processed condition
RECURSIVE ProcessCondition(_, _, _)
ProcessCondition(b, cond, params) ==
  IF Len(params) = 0 THEN [b |-> b, cond |-> cond]
  ELSE ProcessCondition([b EXCEPT !.paramIndex = @ + 1, !.params = Append(@, Head(params))],
                        ReplaceFirst(cond, Placeholder(b.paramIndex)), Tail(params))

Where(b, cond, params) ==
  LET r == ProcessCondition(b, cond, params)
  IN  [r.b EXCEPT !.where = Append(@, r.cond)]

WhereIn(b, column, values) ==
  IF Len(values) = 0 THEN b
  ELSE LET placeholders == [i \in 1..Len(values) |-> <<Placeholder(b.paramIndex + i - 1)>>]
       IN  [b EXCEPT !.paramIndex = @ + Len(values),
                     !.params = @ \o values,
                     !.where = Append(@, <<Lit(column), Lit(" IN (")>> \o Join(placeholders, ", ") \o <<Lit(")")>>)]

ToUpperCase(d) == CASE d = "desc" -> "DESC" [] d = "asc" -> "ASC" [] OTHER -> d
OrderBy(b, column, direction) ==
  [b EXCEPT !.orderBy = Append(@, <<Lit(column), Lit(" "), Lit(ToUpperCase(direction))>>)]
Limit(b, k) == [b EXCEPT !.limit = k]

\* build(): the lines of the text (joined by line feeds) and the values; FROM is
\* set by every buildFor* method, so the missing-FROM error cannot arise
Build(b) ==
  [text |->
     <<IF Len(b.select) = 0 THEN <<Lit("SELECT *")>>
       ELSE <<Lit("SELECT ")>> \o Join([i \in 1..Len(b.select) |-> <<Lit(b.select[i])>>], ", ")>>
     \o <<<<Lit("FROM "), Lit(b.from)>>>>
     \o [i \in 1..Len(b.joins) |->
           <<Lit(b.joins[i].type), Lit(" "), Lit(b.joins[i].table), Lit(" ON "), Lit(b.joins[i].condition)>>]
     \o (IF Len(b.where) > 0 THEN <<<<Lit("WHERE ")>> \o Join(b.where, " AND ")>> ELSE <<>>)
     \o (IF Len(b.orderBy) > 0 THEN <<<<Lit("ORDER BY ")>> \o Join(b.orderBy, ", ")>> ELSE <<>>)
     \o (IF b.limit # Null THEN <<<<Lit("LIMIT "), Num(b.limit)>>>> ELSE <<>>)
     \o (IF b.offset # Null THEN <<<<Lit("OFFSET "), Num(b.offset)>>>> ELSE <<>>),
   values |-> b.params]

\* the builder as each buildFor* method leaves it just before its last call
ChainForCustomer(b, customerId) ==
  Limit(OrderBy(WhereIn(Where(LeftJoin(From(Select(b,
      <<"c.id", "c.name", "c.email", "o.id as order_id", "o.total_cents", "o.status", "o.created_at">>),
      "customers c"), "orders o", "o.customer_id = c.id"),
      <<Lit("c.id = "), Lit("?")>>, <<Num(customerId)>>),
      "o.status", Lits(<<"pending", "processing">>)),
      "o.created_at", "DESC"), DashboardLimit)

ChainForCustomerOrders(b, customerId, limit) ==
  Limit(OrderBy(Where(From(Select(b,
      <<"id", "amount_cents", "tax_rate", "total_cents", "status", "created_at">>),
      "orders"),
      <<Lit("customer_id = "), Lit("?")>>, <<Num(customerId)>>),
      "created_at", "DESC"), limit)

ChainForStatusReport(b, statuses) ==
  WhereIn(From(Select(b,
      <<"status", "COUNT(*) as count", "SUM(total_cents) as total_amount", "AVG(total_cents) as avg_amount">>),
      "orders"), "status", Lits(statuses))

QBInit ==
  /\ qb = QBReset
  /\ qbKind \in {"dashboard", "order"}
  /\ qbLast = [op |-> "none", args |-> <<>>, text |-> <<>>, values |-> <<>>, live |-> FALSE]
  /\ qbPrev = [op |-> "none", args |-> <<>>, text |-> <<>>, values |-> <<>>, live |-> FALSE]
  /\ qbBuilds = 0
QBParked == QBInit /\ qbKind = "dashboard"

\* One buildFor* call on the builder: b is the builder after the chained calls,
\* resets tells whether the chain ends in getQuery() (build, then reset) or in
\* build(). build() returns this._params itself as values, so a result handed
\* out by build() sees every parameter pushed until the next reset.
BuildCall(op, args, b, resets) ==
  /\ qbBuilds < MaxBuilds
  /\ qbBuilds' = qbBuilds + 1
  /\ qbLast' = [op |-> op, args |-> args, text |-> Build(b).text, values |-> Build(b).values,
                live |-> ~resets]
  /\ qbPrev' = IF qbLast.live THEN [qbLast EXCEPT !.values = b.params, !.live = ~resets] ELSE qbLast
  /\ qb' = IF resets THEN QBReset ELSE b
  /\ UNCHANGED <<qbKind, now, nonQBVars>>

BuildForCustomer(customerId) ==
  /\ qbKind = "dashboard"
  /\ BuildCall("buildForCustomer", <<Num(customerId)>>, ChainForCustomer(qb, customerId), TRUE)

BuildForCustomerOrders(customerId, limit) ==
  /\ qbKind = "order"
  /\ BuildCall("buildForCustomerOrders", <<Num(customerId), Num(limit)>>,
               ChainForCustomerOrders(qb, customerId, limit), TRUE)

BuildForStatusReport(statuses) ==
  /\ qbKind = "order"
  /\ BuildCall("buildForStatusReport", Lits(statuses), ChainForStatusReport(qb, statuses), FALSE)

\* ================================================== DatabaseConnectionManager
MaxInitCalls == 3
NumCloses == 2
ConnIds == 1..MaxInitCalls
CloseIds == 1..NumCloses

DBConstructor == [pgPool |-> Null, redisClient |-> Null, isInitialized |-> FALSE]

DBInit ==
  /\ mgr = DBConstructor
  /\ pgState = [p \in ConnIds |-> "unused"]
  /\ rdState = [r \in ConnIds |-> "unused"]
  /\ clPc = [c \in CloseIds |-> "idle"]
  /\ clWaitPg = [c \in CloseIds |-> Null]
  /\ clWaitRd = [c \in CloseIds |-> Null]
  /\ initCalls = 0
  /\ dbLast = [wasInitialized |-> FALSE, created |-> FALSE]
DBParked == DBInit

NewConn(st) == CHOOSE n \in ConnIds : st[n] = "unused" /\ \A k \in ConnIds : st[k] = "unused" => n <= k

\* initialize(): the body has no await, so the call is one step
AlreadyInitialized(m) == m.isInitialized
Initialize ==
  /\ initCalls < MaxInitCalls
  /\ initCalls' = initCalls + 1
  /\ IF AlreadyInitialized(mgr)
       THEN /\ UNCHANGED <<mgr, pgState, rdState>>
            /\ dbLast' = [wasInitialized |-> mgr.isInitialized, created |-> FALSE]
       ELSE LET p == NewConn(pgState)
                r == NewConn(rdState)
            IN  /\ pgState' = [pgState EXCEPT ![p] = "open"]
                /\ rdState' = [rdState EXCEPT ![r] = "open"]
                /\ mgr' = [pgPool |-> p, redisClient |-> r, isInitialized |-> TRUE]
                /\ dbLast' = [wasInitialized |-> mgr.isInitialized, created |-> TRUE]
  /\ UNCHANGED <<clPc, clWaitPg, clWaitRd, now, nonDBVars>>

\* closeAll() up to its await: end() and quit() are called on whatever the fields
\* hold. end() on a pool that is ending or ended rejects at once and the
\* rejection is caught; quit() on a client that is closing is answered when it
\* closes, on a closed one it rejects at once.
CloseAllStart(c) ==
  /\ clPc[c] = "idle"
  /\ LET p == mgr.pgPool
         r == mgr.redisClient
         ends == p # Null /\ pgState[p] = "open"
         quits == r # Null /\ rdState[r] # "closed"
     IN  /\ pgState' = IF ends THEN [pgState EXCEPT ![p] = "ending"] ELSE pgState
         /\ rdState' = IF quits THEN [rdState EXCEPT ![r] = "ending"] ELSE rdState
         /\ clWaitPg' = [clWaitPg EXCEPT ![c] = IF ends THEN p ELSE Null]
         /\ clWaitRd' = [clWaitRd EXCEPT ![c] = IF quits THEN r ELSE Null]
  /\ clPc' = [clPc EXCEPT ![c] = "waiting"]
  /\ UNCHANGED <<mgr, initCalls, dbLast, now, nonDBVars>>

\* the pool has closed its clients; the server has answered QUIT
PoolEnds(p) ==
  /\ pgState[p] = "ending"
  /\ pgState' = [pgState EXCEPT ![p] = "closed"]
  /\ UNCHANGED <<mgr, rdState, clPc, clWaitPg, clWaitRd, initCalls, dbLast, now, nonDBVars>>

RedisQuits(r) ==
  /\ rdState[r] = "ending"
  /\ rdState' = [rdState EXCEPT ![r] = "closed"]
  /\ UNCHANGED <<mgr, pgState, clPc, clWaitPg, clWaitRd, initCalls, dbLast, now, nonDBVars>>

\* closeAll() after await Promise.all(promises)
Settled(st, n) == IF n = Null THEN TRUE ELSE st[n] = "closed"
CloseAllReturns(c) ==
  /\ clPc[c] = "waiting"
  /\ Settled(pgState, clWaitPg[c])
  /\ Settled(rdState, clWaitRd[c])
  /\ mgr' = [mgr EXCEPT !.isInitialized = FALSE]
  /\ clPc' = [clPc EXCEPT ![c] = "done"]
  /\ UNCHANGED <<pgState, rdState, clWaitPg, clWaitRd, initCalls, dbLast, now, nonDBVars>>


StratParked ==
  /\ store = [c \in CustomerIds |-> 0]
  /\ cache = [c \in CustomerIds |-> <<>>]
  /\ redisStrat = RedisCacheConstructor
  /\ hybrid = HybridConstructor(1)
  /\ StratFetchesInit

\* one circuit breaker under concurrent callers
InitCB == now = 0 /\ CBInit /\ RetryParked /\ StackParked /\ ChainParked /\ StratParked /\ MonParked /\ LayerParked /\ DBParked /\ QBParked
NextCB ==
  \/ Tick
  \/ \E c \in CallIds : CBReject(c)
  \/ \E c \in CallIds : CBEnter(c)
  \/ \E c \in CallIds : CBInnerReturns(c)
  \/ \E c \in CallIds : CBInnerThrows(c)
SpecCB == InitCB /\ [][NextCB]_vars

\* the breaker over a dependency that recovers at some moment; calls that can arrive
\* do arrive, and inner calls under way complete
RecoveryCalls == 1..NumRecoveryCalls
InitCBRecovery == InitCB
NextCBRecovery ==
  \/ Tick
  \/ Heal
  \/ \E c \in RecoveryCalls : CBReject(c)
  \/ \E c \in RecoveryCalls : CBEnter(c)
  \/ \E c \in RecoveryCalls : CBInnerReturns(c)
  \/ \E c \in RecoveryCalls : ~healed /\ CBInnerThrows(c)
SpecCBRecovery ==
  /\ InitCBRecovery /\ [][NextCBRecovery]_vars
  /\ WF_vars(\E c \in RecoveryCalls : CBEnter(c))
  /\ WF_vars(\E c \in RecoveryCalls : CBInnerReturns(c))

\* one retry decorator under concurrent fetches
InitRetry == now = 0 /\ RetryInit /\ CBParked /\ StackParked /\ ChainParked /\ StratParked /\ MonParked /\ LayerParked /\ DBParked /\ QBParked
NextRetry ==
  \/ Tick
  \/ \E f \in Fetches : RetryStart(f)
  \/ \E f \in Fetches : RetryInnerReturns(f)
  \/ \E f \in Fetches, nm \in InnerErrorNames : RetryInnerThrows(f, nm)
  \/ \E f \in Fetches : RetryWake(f)
SpecRetry == InitRetry /\ [][NextRetry]_vars

\* the chain Metrics(Timeout(Retry(strategy))) under concurrent fetches
InitStack == now = 0 /\ RetryInit /\ StackInit /\ CBParked /\ ChainParked /\ StratParked /\ MonParked /\ LayerParked /\ DBParked /\ QBParked
NextStack ==
  \/ Tick
  \/ \E f \in StackFetches : StackCall(f)
  \/ \E f \in StackFetches : StackInnerReturns(f)
  \/ \E f \in StackFetches, nm \in InnerErrorNames : StackInnerThrows(f, nm)
  \/ \E f \in StackFetches : StackWake(f)
  \/ \E f \in StackFetches : StackTimerFires(f)
SpecStack == InitStack /\ [][NextStack]_vars

\* one metrics decorator under concurrent fetches
InitMetrics == now = 0 /\ StackParked /\ RetryParked /\ CBParked /\ ChainParked /\ StratParked /\ MonParked /\ LayerParked /\ DBParked /\ QBParked
NextMetrics ==
  \/ Tick
  \/ \E f \in Fetches : MetricsCall(f)
  \/ \E f \in Fetches : MetricsInnerReturns(f)
  \/ \E f \in Fetches, nm \in InnerErrorNames : MetricsInnerThrows(f, nm)
SpecMetrics == InitMetrics /\ [][NextMetrics]_vars

\* one metrics decorator under concurrent fetches, with resetMetrics called at any moment
InitMetricsReset == InitMetrics
NextMetricsReset ==
  \/ NextMetrics
  \/ ResetMetrics
SpecMetricsReset == InitMetricsReset /\ [][NextMetricsReset]_vars

\* building decorator chains and asking the outermost object for the metrics
InitChain == now = 0 /\ ChainInit /\ StackParked /\ RetryParked /\ CBParked /\ StratParked /\ MonParked /\ LayerParked /\ DBParked /\ QBParked
NextChain ==
  \/ \E k \in DecoratorKinds : ChainWrap(k)
  \/ ChainGetMetrics
SpecChain == InitChain /\ [][NextChain]_vars

\* one RedisCacheStrategy under concurrent fetches
InitCacheAside == now = 0 /\ StratInit /\ hybrid = HybridConstructor(1) /\ ChainParked /\ StackParked /\ RetryParked /\ CBParked /\ MonParked /\ LayerParked /\ DBParked /\ QBParked
NextCacheAside ==
  \/ \E c \in CustomerIds : CacheExpire(c)
  \/ \E f \in StratFetches, c \in CustomerIds : RCStart(f, c)
  \/ \E f \in StratFetches : RCGetReturns(f)
  \/ \E f \in StratFetches : RCGetFails(f)
  \/ \E f \in StratFetches : RCConnected(f)
  \/ \E f \in StratFetches : RCConnectFails(f)
  \/ \E f \in StratFetches : RCQueryReturns(f)
  \/ \E f \in StratFetches : RCQueryFails(f)
  \/ \E f \in StratFetches : RCSetexReturns(f)
  \/ \E f \in StratFetches : RCSetexFails(f)
SpecCacheAside == InitCacheAside /\ [][NextCacheAside]_vars

\* one HybridStrategy under concurrent fetches
InitHybrid == now = 0 /\ StratInit /\ ChainParked /\ StackParked /\ RetryParked /\ CBParked /\ MonParked /\ LayerParked /\ DBParked /\ QBParked
NextHybrid ==
  \/ \E c \in CustomerIds : CacheExpire(c)
  \/ \E f \in StratFetches, c \in CustomerIds : HYStart(f, c)
  \/ \E f \in StratFetches : HYGetReturns(f)
  \/ \E f \in StratFetches : HYGetFails(f)
  \/ \E f \in StratFetches : HYConnected(f)
  \/ \E f \in StratFetches : HYConnectFails(f)
  \/ \E f \in StratFetches : HYQueryReturns(f)
  \/ \E f \in StratFetches : HYQueryFails(f)
  \/ \E f \in StratFetches : HYSetexReturns(f)
  \/ \E f \in StratFetches : HYSetexFails(f)
SpecHybrid == InitHybrid /\ [][NextHybrid]_vars

\* the fetches are numbered in the order of their calls
IsNextFetch(f) == \A g \in StratFetches : g < f => sPc[g] # "idle"

\* one RedisCacheStrategy whose cache is flushed while fetches are under way
InitCacheStats == InitCacheAside
NextCacheStats ==
  \/ \E f \in StratFetches, c \in CustomerIds : IsNextFetch(f) /\ RCStart(f, c)
  \/ \E f \in StratFetches : RCGetReturns(f)
  \/ \E f \in StratFetches : RCGetFails(f)
  \/ \E f \in StratFetches : RCConnected(f)
  \/ \E f \in StratFetches : RCConnectFails(f)
  \/ \E f \in StratFetches : RCQueryReturns(f)
  \/ \E f \in StratFetches : RCQueryFails(f)
  \/ \E f \in StratFetches : RCSetexReturns(f)
  \/ \E f \in StratFetches : RCSetexFails(f)
  \/ FlushStart
  \/ FlushReturns
  \/ \E removed \in BOOLEAN : FlushFails(removed)
SpecCacheStats == InitCacheStats /\ [][NextCacheStats]_vars

\* the three strategies over the one redis client and the one pool
InitStrategies == now = 0 /\ StratInit /\ ChainParked /\ StackParked /\ RetryParked /\ CBParked /\ MonParked /\ LayerParked /\ DBParked /\ QBParked
NextStrategies ==
  \/ \E f \in StratFetches, c \in CustomerIds :
       IsNextFetch(f) /\ (RCStart(f, c) \/ HYStart(f, c) \/ PGStart(f, c))
  \/ \E f \in StratFetches : RCGetReturns(f) \/ HYGetReturns(f)
  \/ \E f \in StratFetches : RCGetFails(f) \/ HYGetFails(f)
  \/ \E f \in StratFetches : RCConnected(f) \/ HYConnected(f) \/ PGConnected(f)
  \/ \E f \in StratFetches : RCConnectFails(f) \/ HYConnectFails(f) \/ PGConnectFails(f)
  \/ \E f \in StratFetches : RCQueryReturns(f) \/ HYQueryReturns(f) \/ PGQueryReturns(f)
  \/ \E f \in StratFetches : RCQueryFails(f) \/ HYQueryFails(f) \/ PGQueryFails(f)
  \/ \E f \in StratFetches : RCSetexReturns(f) \/ HYSetexReturns(f)
  \/ \E f \in StratFetches : RCSetexFails(f) \/ HYSetexFails(f)
SpecStrategies == InitStrategies /\ [][NextStrategies]_vars

\* one PerformanceMonitor; its methods are synchronous, so each call is one step
InitMonitor == now = 0 /\ MonInit /\ StratParked /\ ChainParked /\ StackParked /\ RetryParked /\ CBParked /\ LayerParked /\ DBParked /\ QBParked
NextMonitor ==
  \/ \E o \in ObserverIds \cup {NoUpdateObject} : Subscribe(o)
  \/ \E o \in ObserverIds : Unsubscribe(o)
  \/ \E d \in Durations, e \in ErrorValues, bad \in SUBSET ObserverIds : RecordQuery(d, e, bad)
SpecMonitor == InitMonitor /\ [][NextMonitor]_vars

\* the benchmark loop over one MetricsDecorator and one PerformanceMonitor
InitRunner ==
  /\ now = 0 /\ StackParked /\ RetryParked /\ CBParked /\ ChainParked /\ StratParked /\ LayerParked /\ DBParked /\ QBParked
  /\ observers = RunnerObservers /\ monQueries = <<>> /\ monAlerts = <<>>
  /\ monCall = NoCall /\ delivered = <<>> /\ gone = {}
NextRunner ==
  \/ Tick
  \/ ResetMetrics
  \/ \E f \in Fetches : MetricsCall(f)
  \/ \E f \in Fetches : RunnerReturns(f)
  \/ \E f \in Fetches, nm \in InnerErrorNames : RunnerThrows(f, nm)
SpecRunner == InitRunner /\ [][NextRunner]_vars

\* fetches through any stack of decorators over a scripted strategy
InitLayers == now = 0 /\ LayerInit /\ MonParked /\ StratParked /\ ChainParked /\ StackParked /\ RetryParked /\ CBParked /\ DBParked /\ QBParked
NextLayers ==
  \/ \E k \in DecoratorKinds : LayerWrap(k)
  \/ \E script \in Scripts : \E fires \in SUBSET TimeoutLevels(layers) : LayerFetch(script, fires)
SpecLayers == InitLayers /\ [][NextLayers]_vars

\* ================================================== claims: circuit breaker
\* call c is passed to the inner layer / its inner call resolves / rejects in this step
Entering(c) == callPc[c] = "idle" /\ callPc'[c] = "inner"
Resolving(c) == callPc[c] = "inner" /\ callPc'[c] = "idle" /\ callOutcome'[c] = "ok"
Rejecting(c) == callPc[c] = "inner" /\ callPc'[c] = "idle" /\ callOutcome'[c] = "err"
\* the calls suspended in the inner layer that were admitted as a HalfOpen trial:
\* the one that moved Open to HalfOpen and those that found the breaker HalfOpen
Probes == {c \in CallIds : callPc[c] = "inner" /\ callSeen[c] \in {"OPEN", "HALF_OPEN"}}

\* C1: at any moment at most one call is in the inner layer as the HalfOpen
\* probe; no call arriving before the probe has completed gets there as a second one.
C1_AtMostOneProbe == Cardinality(Probes) <= 1

\* C2: with calls one at a time, a failure that leaves the run of consecutive
\* failures below threshold keeps the breaker Closed; the failure that makes the
\* run reach threshold opens it with nextAttempt = time of the failure + resetTimeout.
C2_NthFailureOpens ==
  [][\A c \in CallIds :
       (Rejecting(c) /\ ~overlapped /\ cb.state = "CLOSED") =>
          IF run + 1 < cb.threshold
            THEN cb'.state = "CLOSED" /\ cb'.nextAttempt = cb.nextAttempt
            ELSE /\ run + 1 = cb.threshold
                 /\ cb'.state = "OPEN"
                 /\ cb'.nextAttempt = now + cb.resetTimeout]_vars
C2_Witness ==
  /\ ~overlapped
  /\ cb.state = "OPEN"
  /\ cb.threshold > 1
  /\ run = cb.threshold
  /\ arrivals = cb.threshold
  /\ cb.nextAttempt = now + cb.resetTimeout

\* C3: a call arriving while the breaker is Open and the clock is strictly before
\* nextAttempt ends with the circuit-open error and starts no inner call.
C3_OpenShortCircuits ==
  [][(arrivals' = arrivals + 1 /\ cb.state = "OPEN" /\ now < cb.nextAttempt) =>
        /\ callPc' = callPc
        /\ cb' = cb
        /\ \E c \in CallIds :
             /\ callPc[c] = "idle"
             /\ callOutcome' = [callOutcome EXCEPT ![c] = "open"]
             /\ callInner' = [callInner EXCEPT ![c] = 0]]_vars
C3_Witness ==
  /\ cb.state = "OPEN"
  /\ now < cb.nextAttempt
  /\ \E c \in CallIds : callPc[c] = "idle" /\ callOutcome[c] = "open" /\ callInner[c] = 0

\* C4: a call arriving while Open at or after nextAttempt moves the breaker to
\* HalfOpen and is passed to the inner layer; when that inner call succeeds the
\* breaker is Closed with failure count 0.
C4_TrialSuccessCloses ==
  [][/\ (arrivals' = arrivals + 1 /\ cb.state = "OPEN" /\ now >= cb.nextAttempt) =>
          /\ cb'.state = "HALF_OPEN"
          /\ \E c \in CallIds : Entering(c) /\ callInner'[c] = 1
     /\ \A c \in CallIds :
          (Resolving(c) /\ callSeen[c] = "OPEN") =>
             cb'.state = "CLOSED" /\ cb'.failureCount = 0]_vars

\* C5: whenever the inner call of a call admitted while HalfOpen fails, the
\* breaker is Open again with nextAttempt = time of the failure + resetTimeout.
C5_TrialFailureReopens ==
  [][\A c \in CallIds :
       (Rejecting(c) /\ callSeen[c] \in {"OPEN", "HALF_OPEN"}) =>
          cb'.state = "OPEN" /\ cb'.nextAttempt = now + cb.resetTimeout]_vars

\* C6: nextAttempt is set if and only if the state is Open.
C6_SetIffOpen == (cb.nextAttempt # Null) <=> (cb.state = "OPEN")
\* C6 (amended): nextAttempt is set whenever the state is Open, and once set it is
\* never unset: it keeps a value through HalfOpen and after the breaker closes.
C6_SetWhenOpenAndKept ==
  /\ [](cb.state = "OPEN" => cb.nextAttempt # Null)
  /\ [][cb.nextAttempt # Null => cb'.nextAttempt # Null]_vars
C6_Witness == cb.state = "CLOSED" /\ cb.nextAttempt # Null /\ cb.failureCount = 0

\* C7: with calls one at a time, every inner success sets the failure count to 0;
\* while Closed the failure count is the length of the current run of failures,
\* which is below threshold, and the breaker opens only on a run of threshold failures.
C7_SuccessResetsRun ==
  /\ []((~overlapped /\ cb.state = "CLOSED") => (cb.failureCount = run /\ run < cb.threshold))
  /\ [][/\ (~overlapped /\ \E c \in CallIds : Resolving(c)) => cb'.failureCount = 0
        /\ (~overlapped /\ cb.state = "CLOSED" /\ cb'.state = "OPEN") => run' = cb.threshold]_vars
C7_Witness ==
  /\ ~overlapped
  /\ cb.state = "CLOSED"
  /\ cb.threshold = 2
  /\ arrivals = 3
  /\ callOutcome = (1 :> "err" @@ 2 :> "ok" @@ 3 :> "err")
  /\ run = 1
  /\ cb.failureCount = 1

\* ================================================== claims: retry
Retryable(f) == \A i \in 1..Len(rLog[f]) : rLog[f][i].name # "ValidationError"

\* C8: when every inner call fails with a non-validation error, the fetch makes
\* exactly maxRetries + 1 inner calls and throws a new QueryError whose
\* originalError is the error of the last inner call.
C8_ExhaustionWrapsLast ==
  \A f \in Fetches :
    LET k == Len(rLog[f]) IN
    /\ rCalls[f] <= retry.maxRetries + 1
    /\ (k = rCalls[f] /\ k = retry.maxRetries + 1) => rPc[f] = "done"
    /\ (rPc[f] = "done" /\ rOk[f] = NoId /\ Retryable(f)) =>
         /\ rCalls[f] = retry.maxRetries + 1
         /\ k = retry.maxRetries + 1
         /\ rOutcome[f].kind = "throw"
         /\ rOutcome[f].error.name = "QueryError"
         /\ rOutcome[f].error.originalError = rLog[f][k].id
         /\ \A i \in 1..k : rOutcome[f].error.id # rLog[f][i].id
C8_Witness ==
  \E f \in Fetches :
    /\ retry.maxRetries >= 2
    /\ rPc[f] = "done"
    /\ rCalls[f] = retry.maxRetries + 1
    /\ rOutcome[f].kind = "throw"
    /\ rOutcome[f].error.originalError = <<f, retry.maxRetries + 1>>

\* C9: for every k <= maxRetries, after k non-validation failures the fetch has
\* not given up, and when the next inner call succeeds the fetch returns that
\* call's value at once, after exactly k + 1 inner calls.
C9_SuccessAfterFailures ==
  \A f \in Fetches :
    LET k == Len(rLog[f]) IN
    /\ rOk[f] # NoId =>
         /\ rPc[f] = "done"
         /\ rOutcome[f] = Returned(rOk[f])
         /\ rOk[f] = <<f, k + 1>>
         /\ rCalls[f] = k + 1
    /\ (rPc[f] = "done" /\ k <= retry.maxRetries /\ Retryable(f)) => rOk[f] # NoId
C9_Witness ==
  \E f \in Fetches :
    /\ retry.maxRetries >= 1
    /\ rPc[f] = "done"
    /\ rOutcome[f].kind = "return"
    /\ Len(rLog[f]) = retry.maxRetries
    /\ rCalls[f] = retry.maxRetries + 1

\* C10: a ValidationError from the inner layer on any attempt is the last inner
\* call of the fetch: the same error object is thrown to the caller, no backoff
\* follows it and no further inner call is made.
C10_ValidationNotRetried ==
  \A f \in Fetches :
    LET k == Len(rLog[f]) IN
    \A i \in 1..k :
      rLog[f][i].name = "ValidationError" =>
        /\ i = k
        /\ rPc[f] = "done"
        /\ rOutcome[f] = Thrown(rLog[f][i])
        /\ rCalls[f] = k
        /\ Len(rSleeps[f]) = k - 1
C10_Witness ==
  \E f \in Fetches :
    /\ rPc[f] = "done"
    /\ Len(rLog[f]) >= 2
    /\ rOutcome[f].kind = "throw"
    /\ rOutcome[f].error.name = "ValidationError"
    /\ rOutcome[f].error.id = <<f, Len(rLog[f])>>

\* C11: the i-th wait of a fetch (after failed attempt i - 1) is initialDelay * 2^(i-1);
\* every wait lies between two attempts, so there are at most maxRetries waits, none
\* before the first attempt and none after the last failed one; the fetch resumes
\* only when its wait has elapsed, and a waiting fetch does not hold up another one.
C11_BackoffBetweenAttempts ==
  /\ [](\A f \in Fetches :
          LET n == Len(rSleeps[f]) IN
          /\ \A i \in 1..n : rSleeps[f][i] = retry.initialDelay * Pow2(i - 1)
          /\ n <= retry.maxRetries
          /\ rPc[f] = "idle" => n = 0
          /\ rPc[f] = "sleeping" => n = rCalls[f]
          /\ rPc[f] \in {"calling", "done"} => n = rCalls[f] - 1
          /\ \A g \in Fetches \ {f} :
               rPc[f] = "sleeping" =>
                 /\ rPc[g] = "idle" => ENABLED RetryStart(g)
                 /\ rPc[g] = "calling" => ENABLED RetryInnerReturns(g))
  /\ [][\A f \in Fetches :
          /\ (rPc[f] = "calling" /\ rPc'[f] = "sleeping") =>
                wakeAt'[f] = now + retry.initialDelay * Pow2(attempt[f])
          /\ (rPc[f] = "sleeping" /\ rPc'[f] # "sleeping") =>
                (now >= wakeAt[f] /\ \A g \in Fetches \ {f} : rPc'[g] = rPc[g])]_vars
C11_Witness ==
  \E f, g \in Fetches :
    /\ f # g
    /\ rPc[f] = "sleeping"
    /\ rSleeps[f] = <<retry.initialDelay, 2 * retry.initialDelay>>
    /\ rPc[g] = "done"
    /\ rOutcome[g].kind = "return"

C18_EveryCallSampled ==
  (\A f \in Fetches : mPc[f] # "inner") =>
     /\ Len(metrics.latencies) = metrics.totalQueries
     /\ metrics.successfulQueries + metrics.failedQueries = metrics.totalQueries

\* C19: through Metrics(Timeout(Retry(strategy))), when the only fetch made gets the
\* strategy's result on the first attempt before the timeout has elapsed, the caller
\* receives that result and getMetrics reports 1 query, 1 success and 0 failures.
C19_ChainSuccess ==
  [][\A f \in StackFetches :
       ( /\ \A g \in StackFetches \ {f} : mPc[g] = "idle"
         /\ mPc[f] = "inner"
         /\ rPc[f] = "calling" /\ rCalls[f] = 1
         /\ now < mStart[f] + tmo.timeoutMs
         /\ rOk'[f] = <<f, 1>> ) =>
       ( /\ mOutcome'[f] = Returned(<<f, 1>>)
         /\ GetMetrics(metrics').totalQueries = 1
         /\ GetMetrics(metrics').successfulQueries = 1
         /\ GetMetrics(metrics').failedQueries = 0 )]_vars
C19_Witness ==
  \E f \in StackFetches :
    /\ retry.maxRetries = MaxMaxRetries
    /\ tmo.timeoutMs = MaxTimeoutMs
    /\ mOutcome[f] = Returned(<<f, 1>>)
    /\ rCalls[f] = 1
    /\ GetMetrics(metrics).totalQueries = 1
    /\ GetMetrics(metrics).successfulQueries = 1

\* C20: on every chain that contains a MetricsDecorator, getMetrics() called on
\* the outermost object returns the tallies of a MetricsDecorator of the chain.
C20_GetMetricsFromOutermost ==
  (gm.kind # "none" /\ \E i \in 1..Len(chain) : chain[i].kind = "Metrics") =>
     /\ gm.kind = "return"
     /\ \E i \in 1..Len(chain) : chain[i].kind = "Metrics" /\ chain[i].id = gm.owner

StratDone(f) == sPc[f] = "done"

\* C13: RedisCacheStrategy called sequentially: a fetch for an id without an entry is a
\* miss that issues exactly one store read and one cache write; a later fetch for the
\* same id with no expiry in between is a hit, issues no store read and returns the
\* record that was written, i.e. the parse of the text the miss stored.
C13_MissThenHit ==
  ~sOverlap =>
    \A f \in StratFetches : StratDone(f) /\ sFaults[f] = {} =>
      IF sSeen[f] = <<>>
        THEN /\ ~sHit[f]
             /\ sGets[f] = 1 /\ sReads[f] = 1 /\ sWrites[f] = 1
             /\ sOutcome[f] = SReturned(Format(StoreRows(sId[f])))
        ELSE ~sExpired[f] =>
               /\ sHit[f]
               /\ sReads[f] = 0 /\ sWrites[f] = 0
               /\ sOutcome[f] = SReturned(Parse(Stringify(sSeen[f][1])))
C13_Witness ==
  /\ ~sOverlap
  /\ \E f, g \in StratFetches :
       /\ f # g /\ sId[f] = sId[g] /\ StratDone(f) /\ StratDone(g)
       /\ sSeen[f] = <<>> /\ sOutcome[f].kind = "return" /\ sWrites[f] = 1
       /\ Len(sData[f][1].orders) > 0
       /\ sSeen[g] = sData[f] /\ sHit[g] /\ sReads[g] = 0
       /\ redisStrat = [cacheHits |-> 1, cacheMisses |-> 1]

\* C14: when the store read succeeds and the cache write fails, the fetch still returns
\* the record read from the store.
C14_WriteFailureNotFatal ==
  \A f \in StratFetches : StratDone(f) /\ sPath[f] = "cache" /\ sFaults[f] = {OpSetex} =>
    sOutcome[f] = SReturned(Format(StoreRows(sId[f])))

\* C15: a failed cache read is treated as a miss: the fetch reads the store and returns
\* its record.
C15_ReadFailureIsMiss ==
  \A f \in StratFetches : StratDone(f) /\ sPath[f] = "cache" /\ sFaults[f] = {OpGet} =>
    sReads[f] = 1 /\ sOutcome[f] = SReturned(Format(StoreRows(sId[f])))

\* fetches started so far for id c
StartedFor(c) == {f \in StratFetches : sPc[f] # "idle" /\ sId[f] = c}

\* C16: HybridStrategy with threshold T called sequentially: the calls number 1..T-1 for
\* an id read the store directly and neither read nor write the cache; call number T and
\* every later call for that id take the cache-aside path (cache read; on a miss one
\* store read followed by one cache write). The count is never reset.
C16_ThresholdRouting ==
  /\ [](~sOverlap =>
         \A f \in StratFetches : sPc[f] # "idle" =>
           IF sNth[f] < hybrid.hotDataThreshold
             THEN /\ sPath[f] = "direct" /\ sGets[f] = 0 /\ sWrites[f] = 0 /\ ~sHit[f]
                  /\ StratDone(f) /\ sFaults[f] = {} =>
                       sReads[f] = 1 /\ sOutcome[f] = SReturned(Format(StoreRows(sId[f])))
             ELSE /\ sPath[f] = "cache" /\ sGets[f] = 1
                  /\ StratDone(f) /\ sFaults[f] = {} =>
                       \/ sHit[f] /\ sReads[f] = 0 /\ sWrites[f] = 0
                       \/ ~sHit[f] /\ sReads[f] = 1 /\ sWrites[f] = 1
                          /\ sOutcome[f] = SReturned(Format(StoreRows(sId[f]))))
  /\ [][\A c \in CustomerIds : hybrid'.accessCount[c] >= hybrid.accessCount[c]]_vars
C16_Witness ==
  /\ ~sOverlap /\ hybrid.hotDataThreshold = 2
  /\ \E f, g \in StratFetches :
       /\ sId[f] = sId[g] /\ StratDone(f) /\ StratDone(g)
       /\ sNth[f] = 1 /\ sPath[f] = "direct" /\ sReads[f] = 1
       /\ sNth[g] = 2 /\ sPath[g] = "cache" /\ sWrites[g] = 1 /\ sOutcome[g].kind = "return"

\* C17: under any interleaving of fetches into one HybridStrategy the count stored for an
\* id equals the number of fetches started for it, failed ones included, and exactly the
\* first T-1 fetches started for an id take the direct path.
C17_NoLostIncrement ==
  \A c \in CustomerIds :
    /\ hybrid.accessCount[c] = Cardinality(StartedFor(c))
    /\ {f \in StartedFor(c) : sPath[f] = "direct"}
         = {f \in StartedFor(c) : sNth[f] <= hybrid.hotDataThreshold - 1}
    /\ \A f, g \in StartedFor(c) : f # g => sNth[f] # sNth[g]
C17_Witness ==
  /\ sOverlap /\ hybrid.hotDataThreshold = 2
  /\ \E c \in CustomerIds : \E f, g \in StartedFor(c) :
       /\ hybrid.accessCount[c] = 2
       /\ sPath[f] = "direct" /\ sPath[g] = "cache"
       /\ StratDone(g) /\ ~StratDone(f)
       /\ \E h \in StartedFor(c) : StratDone(h) /\ sFaults[h] # {}

\* ================================================== claims: performance monitor
LastWasRecord == monCall.op = "recordQuery"
\* the event of the last recordQuery call
LastEvent ==
  LET h == monQueries[Len(monQueries)]
  IN  QueryInfo(h.customerId, h.duration, h.error)
\* the alerts the alerting rules derive for event q
Carries(q) == q.error # "null"
DueAlerts(q) ==
  (IF q.duration > 1000 THEN {"SLOW_QUERY"} ELSE {}) \cup (IF Carries(q) THEN {"QUERY_ERROR"} ELSE {})
\* the observers that update was invoked on with a notification of the given kind
ToOf(kind) ==
  LET d == SelectSeq(delivered, LAMBDA x : x.note.type = kind[1] /\ x.note.alert = kind[2])
  IN  [i \in 1..Len(d) |-> d[i].to]
DueKinds(q) == {<<"ALERT", a>> : a \in DueAlerts(q)} \cup {<<"QUERY_EXECUTED", "none">>}

\* C22: one recordQuery call invokes update with the raw event on every subscribed
\* observer in subscription order, and so for every notification of the call.
C22_AllNotifiedInOrder ==
  LastWasRecord =>
    /\ ToOf(<<"QUERY_EXECUTED", "none">>) = observers
    /\ \A i \in 1..Len(delivered) :
         ToOf(<<delivered[i].note.type, delivered[i].note.alert>>) = observers

\* C23: when an observer's update raises during a notification, the observers subscribed
\* after it still receive that notification and the call still sends the remaining ones.
C23_RaiseDoesNotBlock ==
  LastWasRecord /\ monCall.bad # {} =>
    \A k \in DueKinds(LastEvent) : \A i \in 1..Len(observers) :
      \E j \in 1..Len(ToOf(k)) : ToOf(k)[j] = observers[i]

\* C24: after a recordQuery call in which an observer raised, the event history holds
\* the event exactly once and the alert history holds every alert derived for it.
C24_RecordsIntact ==
  LastWasRecord /\ monCall.bad # {} =>
    /\ Cardinality({i \in 1..Len(monQueries) : monQueries[i].customerId = monCall.arg}) = 1
    /\ {monAlerts[i].type : i \in {j \in 1..Len(monAlerts) : monAlerts[j].data = LastEvent}}
         = DueAlerts(LastEvent)

\* C25: for every event a SLOW_QUERY alert is derived exactly when duration > 1000 and a
\* QUERY_ERROR alert exactly when the event carries an error; every derived alert is in
\* the alert history once and is sent to the observers as a notification of its own.
C25_AlertingRules ==
  LastWasRecord =>
    \A a \in {"SLOW_QUERY", "QUERY_ERROR"} :
      LET n == Cardinality({j \in 1..Len(monAlerts) :
                              monAlerts[j].data = LastEvent /\ monAlerts[j].type = a})
      IN  /\ n = (IF a \in DueAlerts(LastEvent) THEN 1 ELSE 0)
          /\ a \in DueAlerts(LastEvent) /\ observers # <<>> => ToOf(<<"ALERT", a>>) # <<>>
          /\ a \notin DueAlerts(LastEvent) => ToOf(<<"ALERT", a>>) = <<>>

\* the list obs with every occurrence of o taken out, the rest in its order
Kept(obs, o) == {i \in 1..Len(obs) : obs[i] # o}
KeptInOrder(obs, o, res) ==
  /\ Len(res) = Cardinality(Kept(obs, o))
  /\ \A k \in 1..Len(res) :
       \E i \in Kept(obs, o) : Cardinality({j \in Kept(obs, o) : j < i}) = k - 1 /\ res[k] = obs[i]
Reached(obs, bad) ==
  {NotifyRun(obs, EventNote(QueryInfo(0, 0, "null")), bad)[i].to :
     i \in 1..Len(NotifyRun(obs, EventNote(QueryInfo(0, 0, "null")), bad))}

AtSortedIndex(xs, v, k) ==
  /\ Cardinality({i \in 1..Len(xs) : xs[i] < v}) <= k
  /\ k < Cardinality({i \in 1..Len(xs) : xs[i] <= v})
MonDurations == [i \in 1..Len(monQueries) |-> monQueries[i].duration]

IsEv(j, ev) == lTrace[j].ev = ev
\* the call that the settlement at j answers, and the settlement that answers the call at c
CallOf(j) ==
  CHOOSE c \in 1..j : /\ IsEv(c, "call") /\ lTrace[c].level = lTrace[j].level /\ c < j
                      /\ \A d \in (c + 1)..(j - 1) : ~(IsEv(d, "call") /\ lTrace[d].level = lTrace[j].level)
SettleOf(c) ==
  CHOOSE j \in c..Len(lTrace) : /\ IsEv(j, "settle") /\ lTrace[j].level = lTrace[c].level /\ c < j
                                /\ \A d \in (c + 1)..(j - 1) : ~(IsEv(d, "settle") /\ lTrace[d].level = lTrace[c].level)
\* what the next layer in did during the invocation that settles at j
InnerCalls(j) ==
  {k \in (CallOf(j) + 1)..(j - 1) : IsEv(k, "call") /\ lTrace[k].level = lTrace[j].level + 1}
InnerSettles(j) ==
  {k \in (CallOf(j) + 1)..(j - 1) : IsEv(k, "settle") /\ lTrace[k].level = lTrace[j].level + 1}
LogsBetween(c, j) ==
  {k \in (c + 1)..(j - 1) : IsEv(k, "log") /\ lTrace[k].level = lTrace[c].level}
StrategySettles == {j \in 1..Len(lTrace) : IsEv(j, "settle") /\ lTrace[j].what = "Strategy"}
FirstStrategySettle == CHOOSE j \in StrategySettles : \A k \in StrategySettles : j <= k
StrategyRaisedValidation ==
  /\ StrategySettles # {}
  /\ lTrace[FirstStrategySettle].out.kind = "throw"
  /\ lTrace[FirstStrategySettle].out.error.name = "ValidationError"
PassThroughKinds == {"Logging", "Metrics", "Timeout", "CircuitBreaker"}

\* C27: a ValidationError of the strategy reaches the caller as the same error
\* after exactly one strategy call, through every stack of Retry, Logging,
\* Metrics, Timeout whose timer did not fire and Circuit Breaker that admitted
\* the call; and Logging, Metrics, Timeout (timer not fired) and Circuit Breaker
\* settle with exactly the error their inner layer raised.
C27_ValidationNeverMasked ==
  lFetches > 0 =>
    /\ (StrategyRaisedValidation /\ lFires = {}) =>
         /\ lOut = lTrace[FirstStrategySettle].out
         /\ lCalls = 1
    /\ \A j \in 1..Len(lTrace) :
         (/\ IsEv(j, "settle")
          /\ lTrace[j].what \in PassThroughKinds
          /\ lTrace[j].level \notin lFires) =>
           \A k \in InnerSettles(j) :
             lTrace[k].out.kind = "throw" => lTrace[j].out = lTrace[k].out
C27_Witness ==
  /\ lFetches > 0
  /\ StrategyRaisedValidation
  /\ lFires = {}
  /\ lOut.kind = "throw" /\ lOut.error.name = "ValidationError" /\ lOut.error.id = <<1, 1>>
  /\ Len(layers) = MaxLayers
  /\ \E i, k \in 1..Len(layers) : layers[i].kind = "Retry" /\ layers[k].kind = "CircuitBreaker"

\* C28: every invocation of a Logging layer writes one start entry, then makes
\* exactly one inner call, then writes one outcome entry (Success for a record,
\* Failed for an error) and settles with exactly what the inner call settled with.
C28_LoggingObservational ==
  \A c \in 1..Len(lTrace) :
    (IsEv(c, "call") /\ lTrace[c].what = "Logging") =>
      LET j == SettleOf(c)
      IN  /\ Cardinality(InnerCalls(j)) = 1
          /\ Cardinality(InnerSettles(j)) = 1
          /\ LogsBetween(c, j) = {c + 1, j - 1}
          /\ c + 1 < j - 1
          /\ lTrace[c + 1].what = "Starting"
          /\ \A k \in InnerCalls(j) : c + 1 < k
          /\ \A k \in InnerSettles(j) :
               /\ k < j - 1
               /\ lTrace[j].out = lTrace[k].out
               /\ lTrace[j - 1].what = (IF lTrace[k].out.kind = "return" THEN "Success" ELSE "Failed")
C28_Witness ==
  /\ lFetches > 0
  /\ lOut.kind = "return"
  /\ lCalls > 1
  /\ \E c, d \in 1..Len(lTrace) :
       /\ IsEv(c, "log") /\ lTrace[c].what = "Failed"
       /\ IsEv(d, "log") /\ lTrace[d].what = "Success" /\ c < d

\* ------------------------------------------------------------ C29: the record's shape
ReturnedRecord(f) == sOutcome[f].value[1]
HasReturned(f) == sPc[f] = "done" /\ sOutcome[f].kind = "return"

\* C29: every record a strategy fetch returns (cache-aside on a miss and on a
\* hit, direct, hybrid on the hot and on the cold path) has no orders when its
\* customer is null; for a customer whose query gives zero rows the record is
\* customer null with no orders, and for one with at least one row the customer
\* is not null.
C29_RecordShape ==
  \A f \in StratFetches :
    HasReturned(f) =>
      /\ ReturnedRecord(f).customer.null => ReturnedRecord(f).orders = <<>>
      /\ Len(StoreRows(sId[f])) = 0 =>
           ReturnedRecord(f).customer = NullCustomer /\ ReturnedRecord(f).orders = <<>>
      /\ Len(StoreRows(sId[f])) >= 1 => ~ReturnedRecord(f).customer.null
C29_Witness ==
  \E f, g \in StratFetches :
    /\ HasReturned(f) /\ HasReturned(g)
    /\ sStrat[f] = "redis" /\ ~sHit[f] /\ Len(StoreRows(sId[f])) = 0
    /\ ReturnedRecord(f) = [customer |-> NullCustomer, orders |-> <<>>]
    /\ sStrat[g] = "hybrid" /\ sHit[g] /\ sId[g] = sId[f]
    /\ ReturnedRecord(g).customer = NullCustomer

\* ------------------------------------------------------------ C30: the hit/miss tally
Counted == {f \in StratFetches : sCounted[f]}
\* the fetch went on to the store: pgPool.connect() was called
StoreReadStarted(f) ==
  \/ sPc[f] \in {"connect", "query", "setex"}
  \/ sPc[f] = "done" /\ sFaults[f] \cap {OpConnect, OpQuery, OpSetex} # {}
  \/ sPc[f] = "done" /\ sOutcome[f].kind = "return" /\ ~sHit[f]

\* C30: at every moment, with overlapping fetches and flushes, hits + misses of
\* getCacheStats is the number of fetches whose cache read was answered since
\* the last flush, hits is the number of those answered from the cache, and
\* misses is the number of those that went on to read the store.
C30_RunningTally ==
  LET stats == GetCacheStats(redisStrat)
  IN  /\ stats.hits + stats.misses = Cardinality(Counted)
      /\ stats.total = Cardinality(Counted)
      /\ stats.hits = Cardinality({f \in Counted : sHit[f]})
      /\ stats.misses = Cardinality({f \in Counted : StoreReadStarted(f)})
      /\ \A f \in Counted : sHit[f] => sReads[f] = 0 /\ ~StoreReadStarted(f)
C30_Witness ==
  /\ flushes > 0 /\ flushPc = "idle"
  /\ GetCacheStats(redisStrat).misses = 1
  /\ GetCacheStats(redisStrat).hits = 0
  /\ \E f, g \in StratFetches :
       /\ sCounted[f] /\ sPc[f] = "connect"
       /\ ~sCounted[g] /\ sPc[g] \in {"query", "setex"} /\ sOverlap

\* ------------------------------------------------------------ C31, C36: the tallies of MetricsDecorator
InFlight == {f \in Fetches : mPc[f] = "inner"}

\* C31: with concurrent fetches through one MetricsDecorator and no reset, at
\* every moment totalQueries = successfulQueries + failedQueries + the number
\* of fetches in flight, and once all the fetches have completed totalQueries
\* is their number.
C31_NoLostTally ==
  /\ metrics.totalQueries = metrics.successfulQueries + metrics.failedQueries + Cardinality(InFlight)
  /\ (\A f \in Fetches : mPc[f] = "done") => metrics.totalQueries = NumFetches
C31_Witness ==
  /\ InFlight = {}
  /\ \A f \in Fetches : mPc[f] = "done"
  /\ metrics.totalQueries = NumFetches
  /\ metrics.successfulQueries >= 1 /\ metrics.failedQueries >= 1
  /\ \E f, g \in Fetches : f # g /\ mStart[g] < now /\ mStart[g] > mStart[f]
                            /\ metrics.latencies = <<now - mStart[f]>>

\* C36: in every state of a MetricsDecorator, also when resetMetrics is called
\* while fetches are in flight, successfulQueries + failedQueries <= totalQueries.
C36_SettledAtMostTotal ==
  metrics.successfulQueries + metrics.failedQueries <= metrics.totalQueries

\* ------------------------------------------------------------ C32: the abandoned Retry layer
\* the caller of the TimeoutDecorator has received the TimeoutError
Abandoned(f) == tOutcome[f] = Thrown(TimeoutErr(f))
\* the Retry layer is not cancelled: whatever it waits for can still arrive
RetryGoesOn(f) ==
  /\ rPc[f] = "calling" =>
       /\ ENABLED StackInnerReturns(f)
       /\ \A nm \in InnerErrorNames : ENABLED StackInnerThrows(f, nm)
  /\ (rPc[f] = "sleeping" /\ now >= wakeAt[f]) => ENABLED StackWake(f)
StoppedBySuccessOrExhaustion(f) ==
  \/ rOutcome[f].kind = "return"
  \/ rCalls[f] = retry.maxRetries + 1
StoppedByValidationError(f) ==
  /\ rOutcome[f].kind = "throw"
  /\ rOutcome[f].error.name = "ValidationError"
  /\ rOutcome[f].error = rLog[f][Len(rLog[f])]
\* nothing the abandoned layer does is seen at or above the Timeout
RetryLayerActs(f) ==
  <<rPc[f], attempt[f], wakeAt[f], rOutcome[f], rCalls[f], rLog[f]>>' #
    <<rPc[f], attempt[f], wakeAt[f], rOutcome[f], rCalls[f], rLog[f]>>
NothingReachesAbove ==
  [][\A f \in StackFetches :
       (Abandoned(f) /\ RetryLayerActs(f)) =>
         /\ tOutcome'[f] = tOutcome[f]
         /\ mOutcome'[f] = mOutcome[f]
         /\ mPc'[f] = mPc[f]
         /\ metrics' = metrics]_vars

ClosedAndClean == cb.state = "CLOSED" /\ cb.failureCount = 0
\* the cool-down has passed (or the breaker is HalfOpen) and a call can still arrive
CallsArriveAfterCoolDown == ~ShortCircuits(cb, now) /\ arrivals < MaxArrivals

\* C33: when the breaker is Open or HalfOpen, every inner call succeeds from now
\* on and calls arrive after the cool-down has passed, the breaker eventually is
\* Closed with failure count 0, and it stays so while inner calls keep succeeding.
C33_BreakerRecovers ==
  /\ (healed /\ cb.state \in {"OPEN", "HALF_OPEN"} /\ CallsArriveAfterCoolDown) ~> ClosedAndClean
  /\ [][(healed /\ ClosedAndClean) => ClosedAndClean']_vars
C33_Witness ==
  /\ healed
  /\ ClosedAndClean
  /\ cb.nextAttempt # Null
  /\ cb.threshold = MaxThreshold
  /\ \E c \in RecoveryCalls : callSeen[c] = "OPEN" /\ callOutcome[c] = "ok"

\* ------------------------------------------------------------ C34, C35: the breaker's fields
\* C34: in every state of the breaker, also with overlapping calls, state = Open
\* implies failureCount >= threshold.
C34_OpenMeansThresholdReached ==
  cb.state = "OPEN" => cb.failureCount >= cb.threshold

\* the step is a call that arrives and is not passed to the inner layer
TurnedAway == arrivals' = arrivals + 1 /\ callPc' = callPc

\* C35: a call rejected by the Open breaker leaves state, failureCount and
\* nextAttempt as they were: it is not counted as a failure and does not extend
\* the cool-down.
C35_RejectionChangesNothing ==
  [][TurnedAway =>
       /\ cb.state = "OPEN" /\ cb'.state = "OPEN"
       /\ cb'.failureCount = cb.failureCount
       /\ cb'.nextAttempt = cb.nextAttempt
       /\ now < cb'.nextAttempt]_vars
C35_Witness ==
  /\ cb.state = "OPEN"
  /\ cb.failureCount = cb.threshold
  /\ cb.nextAttempt = cb.resetTimeout
  /\ now > 0
  /\ Cardinality({c \in CallIds : callPc[c] = "idle" /\ callOutcome[c] = "open"}) >= 2

\* ------------------------------------------------------------ C37: store connections
\* the fetch is between client.query being sent and client.release()
HoldsClient(f) ==
  \/ sPc[f] = "query"
  \/ sPc[f] = "setex" /\ sStrat[f] = "redis"

\* C37: every connection a strategy fetch acquires is released exactly once
\* before the fetch returns or raises, also when the store query or the cache
\* write fails; a fetch answered from the cache acquires none; so when all
\* the fetches have completed no connection is held.
C37_ConnectionsReleased ==
  /\ \A f \in StratFetches :
       /\ sReads[f] <= 1
       /\ f \in held <=> HoldsClient(f)
       /\ sReleases[f] = (IF f \in held THEN 0 ELSE sReads[f])
       /\ sPc[f] = "done" => (f \notin held /\ sReleases[f] = sReads[f])
       /\ sHit[f] => sReads[f] = 0
  /\ (\A f \in StratFetches : sPc[f] \in {"idle", "done"}) => held = {}
C37_Witness ==
  \E f, g \in StratFetches :
    /\ sPc[f] = "done" /\ sPc[g] = "done" /\ held = {}
    /\ sStrat[f] = "redis" /\ OpSetex \in sFaults[f] /\ sReleases[f] = 1
    /\ sStrat[g] = "hybrid" /\ OpQuery \in sFaults[g] /\ sReleases[g] = 1
    /\ sOverlap

\* ------------------------------------------------------------ C38: the order of the notifications
\* the notification sent to every subscribed observer, in subscription order
ToAll(note) == [i \in 1..Len(observers) |-> [to |-> observers[i], note |-> note]]
WasSent(a) == \E i \in 1..Len(delivered) : delivered[i].note.alert = a

\* C38: the notifications of one recordQuery call are the SLOW_QUERY alert (if
\* any), then the QUERY_ERROR alert (if any), then the QUERY_EXECUTED event,
\* each delivered to all observers before the next one is sent; the event is in
\* the history before the first of them.
C38_NotificationOrder ==
  LastWasRecord =>
    /\ monQueries[Len(monQueries)].customerId = monCall.arg
    /\ delivered =
         (IF WasSent("SLOW_QUERY") THEN ToAll(AlertNote(SlowAlert(LastEvent, now))) ELSE <<>>)
           \o (IF WasSent("QUERY_ERROR") THEN ToAll(AlertNote(ErrorAlert(LastEvent, now))) ELSE <<>>)
           \o ToAll(EventNote(LastEvent))
\* the same when no observer raises
C38_OrderWhenNoneRaises == (LastWasRecord /\ monCall.bad = {}) => C38_NotificationOrder

\* ------------------------------------------ specification: the connection manager
InitDB == now = 0 /\ DBInit /\ QBParked /\ LayerParked /\ MonParked /\ StratParked /\ ChainParked /\ StackParked /\ RetryParked /\ CBParked
NextDB ==
  \/ Initialize
  \/ \E c \in CloseIds : CloseAllStart(c)
  \/ \E p \in ConnIds : PoolEnds(p)
  \/ \E r \in ConnIds : RedisQuits(r)
  \/ \E c \in CloseIds : CloseAllReturns(c)
SpecDB == InitDB /\ [][NextDB]_vars

\* ------------------------------------------------------------ C39: one pool, one client
OpenPools == {p \in ConnIds : pgState[p] = "open"}
OpenClients == {r \in ConnIds : rdState[r] = "open"}

\* C39: over any sequence and interleaving of initialize() and closeAll() calls
\* at most one pool and at most one Redis client created by the manager are
\* open, and an initialize() that finds the manager initialized creates nothing.
C39_OneOpenPoolAndClient ==
  /\ Cardinality(OpenPools) <= 1
  /\ Cardinality(OpenClients) <= 1
  /\ dbLast.wasInitialized => ~dbLast.created

\* ------------------------------------------ specification: the query builders
StatusLists == UNION {[1..k -> Statuses] : k \in 0..MaxStatuses}
Limits == {DefaultLimit} \cup 1..MaxLimit
InitQB == now = 0 /\ QBInit /\ DBParked /\ LayerParked /\ MonParked /\ StratParked /\ ChainParked /\ StackParked /\ RetryParked /\ CBParked
NextQB ==
  \/ \E i \in 1..NumIds : BuildForCustomer(i)
  \/ \E i \in 1..NumIds, l \in Limits : BuildForCustomerOrders(i, l)
  \/ \E sts \in StatusLists : BuildForStatusReport(sts)
SpecQB == InitQB /\ [][NextQB]_vars

\* ------------------------------------------------------------ C40: the builder is reusable
RECURSIVE Flatten(_)
Flatten(ls) == IF Len(ls) = 0 THEN <<>> ELSE Head(ls) \o Flatten(Tail(ls))
IsPlaceholder(t) == t.s = "$"
PlaceholdersOf(text) == SelectSeq(Flatten(text), IsPlaceholder)
NumberedFromOne(r) ==
  /\ Len(PlaceholdersOf(r.text)) = Len(r.values)
  /\ \A i \in 1..Len(r.values) : PlaceholdersOf(r.text)[i] = Placeholder(i)
SameCallAgain == qbPrev.op = qbLast.op /\ qbPrev.args = qbLast.args

\* C40: after a buildFor* method returns the builder is in its reset state, so
\* the same method called again with the same arguments returns the same text
\* and the same values, with placeholders numbered from $1.
C40_BuilderReusable ==
  qbLast.op # "none" =>
    /\ qb = QBReset
    /\ NumberedFromOne(qbLast)
    /\ SameCallAgain => (qbLast.text = qbPrev.text /\ qbLast.values = qbPrev.values)
\* what holds of the two methods that end in getQuery()
C40_ReusableAfterGetQuery ==
  /\ qbKind = "dashboard" => C40_BuilderReusable
  /\ qbLast.op = "buildForCustomerOrders" => qb = QBReset
C40_RepeatedCallAgrees ==
  SameCallAgain => (qbLast.text = qbPrev.text /\ qbLast.values = qbPrev.values)

====
